---- MODULE Spec2Model ----
(***************************************************************************)
(* State-machine model of the PDF structural editing and splitting engine  *)
(* (class PDFProcessor of src/src/js/pdf-processor.js, lines 829-1798).    *)
(*                                                                         *)
(* Sizes are measured in tenths of a megabyte: MB size units make one      *)
(* megabyte, so a requested limit of 0.4 MB is the input 4 and 1.5 MB is   *)
(* the input 15.  A document is the sequence of its pages; an output       *)
(* document is the sequence of the 0-based source page indices copied into *)
(* it, in the order of the copyPages call.                                 *)
(***************************************************************************)
EXTENDS Integers, Sequences, FiniteSets, TLC

VARIABLES
  pc,             \* position of the running call
  lastPct,        \* last percentage handed to progressCallback (-1: none yet)
  \* ---- splitBySize / splitByPagesFixed
  pageSizes,      \* pdfDoc: the pages, each with its serialized size contribution
  maxSizeMB,      \* argument maxSizeMB, in tenths of a megabyte
  limit,          \* const limit
  start, part, low, high, bestFitDoc, bestFitPages, l, r,
  outputs,        \* const outputs = []
  probes,         \* serializations spent on the current chunk
  returned,       \* value handed back to the caller (<<>> until a return)
  err,            \* the Error thrown, if any
  pagesPerChunk,  \* argument pagesPerChunk of splitByPagesFixed
  chunkSize, from,
  \* ---- compressImagesInMainThread
  xobjects,       \* per page, the Image entries of its XObject dictionary
  totalEstimated, processedImages, replacedImages,
  pageI,          \* loop index i over the pages
  keyK,           \* position in xobj.keys() on the current page
  \* ---- removeImagesFromPage / cleanContentStream
  resources,      \* the page's Resources and its XObject dictionary
  contents,       \* the page's Contents, as its sequence of tokens
  readable,       \* whether the stream objects of Contents can be read and decoded
  \* ---- compressToTargetSize
  targetMB,       \* argument targetMB, in whole megabytes
  targetBytes, baselineBytes, lowQ, highQ, iter, best,
  tried,          \* the candidates built so far: clone, quality and byte length
  result,         \* the object returned: processedDoc and qualityUsed
  graphs,         \* per document (0: the pdfDoc argument), its image XObjects
  \* ---- processPDF (legacy engine) and createEnhancedEngine().process
  engine,         \* "legacy" or "enhanced"
  file,           \* the File argument and what its bytes parse to
  options,        \* the options argument
  trace,          \* the stages entered so far, in order
  processedDoc,   \* processedDoc / targetDoc: its pages and which graph it is
  rebuild,        \* outcome of the rebuild block: "none", "ok" or "failed"
  output,         \* the documents serialized into the returned files
  failure,        \* message of the Error the invocation rejected with
  savingsBytes,   \* savings.savingsBytes of the returned result (-1: none)
  \* ---- compressImages and splitByPages, with their worker path
  op,             \* the method called: "compress" or "split"
  isWorkerSupported,
  startPage, endPage,
  reports,        \* the calls of progressCallback, in order
  newPdfDoc,      \* the document made by PDFDocument.create(), if any
  answer,         \* the document the call resolved with
  thrown,         \* message of the Error the call rejected with
  \* ---- compressImagesInMainThread over nested Form XObjects
  graph,          \* the XObject entries of every page and of every Form
  stack,          \* the running compressInDict calls, outermost first
  visits,         \* per Form, the compressInDict calls made on it for this page
  \* ---- the worker's task queue
  isProcessing, currentTaskId,
  taskQueue,      \* the queued tasks, each with its id and priority
  running,        \* ids of the tasks whose processing function has not settled
  timers,         \* pending setTimeout(processNextTask, 0) callbacks
  started,        \* per task id, the PROCESSING_STARTED messages posted
  terminals,      \* per task id, the PROCESSING_COMPLETED and ERROR messages posted
  cancelled,      \* ids for which TASK_CANCELLED was posted
  accepted,       \* number of tasks queueTask has put into the queue
  calls,          \* per invocation of the app's processPDF: where it is suspended,
                  \* its local pdfDoc, and the mutating passes it still has to run
  parsed,         \* per Document Graph parsed so far: the invocation that parsed
                  \* it and the invocations that mutated it
  pdfDocument,    \* app.state.pdfDocument, 0 for null
  processingOptions, \* app.state.processingOptions
  clicks          \* the tab activations and toggle clicks handled so far

splitVars == <<pageSizes, maxSizeMB, limit, start, part, low, high,
               bestFitDoc, bestFitPages, l, r, outputs, probes, returned, err>>

fixedVars == <<pagesPerChunk, chunkSize, from>>

compressVars == <<xobjects, totalEstimated, processedImages, replacedImages,
                  pageI, keyK>>

removeVars == <<resources, contents, readable>>

targetVars == <<targetMB, targetBytes, baselineBytes, lowQ, highQ, iter, best,
                tried, result, graphs>>

\* the state of the calls modelled in the later sections
flowVars == <<engine, file, options, trace, processedDoc, rebuild, output,
              failure, savingsBytes>>

workerVars == <<op, isWorkerSupported, startPage, endPage, reports, newPdfDoc,
                answer, thrown>>

walkVars == <<graph, stack, visits>>

queueVars == <<isProcessing, currentTaskId, taskQueue, running, timers, started,
               terminals, cancelled, accepted>>

raceVars == <<calls, parsed, pdfDocument>>

uiVars == <<processingOptions, clicks>>

lateVars == <<queueVars, raceVars, uiVars>>

moreVars == <<targetVars, flowVars, workerVars, walkVars, lateVars>>

earlierVars == <<lastPct, splitVars, fixedVars, compressVars, removeVars, targetVars,
                 flowVars, workerVars, walkVars>>

vars == <<pc, lastPct, splitVars, fixedVars, compressVars, removeVars, moreVars>>

----------------------------------------------------------------------------
(* Bounds of the model *)
MaxPages == 6

(* Program constants *)
MB == 10               \* 1024 * 1024 bytes, in size units
GuardSamples == 5      \* Math.min(5, pageCount)
DefaultMaxSizeMB == 10 \* Number(maxSizeMB) || 10
ProgressCap == 95      \* Math.min(95, ...)

(* Inputs: a page contributes its own bytes; pages marked shared use one   *)
(* common resource that a saved document holds once however many of its   *)
(* pages use it *)
PageSet ==
  {[own |-> 3, shared |-> FALSE], [own |-> 3, shared |-> TRUE],
   [own |-> 12, shared |-> FALSE], [own |-> 25, shared |-> FALSE]}
MaxSizeInputs == {0, 4, 10, 15}
SaveOverhead == 1
SharedSize == 4

----------------------------------------------------------------------------
(* Helpers *)
Min(a, b) == IF a <= b THEN a ELSE b
Max(a, b) == IF a >= b THEN a ELSE b

\* Math.round of the non-negative rational n/d
RoundDiv(n, d) == (2 * n + d) \div (2 * d)

RECURSIVE SumRange(_, _, _)
SumRange(s, a, b) == IF a > b THEN 0 ELSE s[a] + SumRange(s, a + 1, b)

\* pages [first, end) of the source, as the indices array built by the loops
Indices(first, end) == [i \in 1..(end - first) |-> first + i - 1]

\* (await doc.save({useObjectStreams: true, addDefaultPage: false})).length
\* of a document holding the given source pages
SavedLength(doc) ==
  SaveOverhead
  + SumRange([i \in 1..Len(doc) |-> pageSizes[doc[i] + 1].own], 1, Len(doc))
  + (IF \E i \in 1..Len(doc) : pageSizes[doc[i] + 1].shared THEN SharedSize ELSE 0)

NoDoc == <<>>
NoError == [kind |-> "none", page |-> 0, size |-> 0, limit |-> 0]

\* Math.max(1, Math.round(Number(maxSizeMB) || 10)) * 1024 * 1024
LimitOf(m) ==
  LET n == IF m = 0 THEN DefaultMaxSizeMB * MB ELSE m
  IN  Max(1, RoundDiv(n, MB)) * MB

\* smallest single-page serialization among the first min(5, pageCount) pages
RECURSIVE MinSample(_, _)
MinSample(i, minSoFar) ==
  IF i >= Min(GuardSamples, Len(pageSizes)) THEN minSoFar
  ELSE LET size == SavedLength(<<i>>)
       IN  MinSample(i + 1, IF minSoFar = -1 \/ size < minSoFar THEN size ELSE minSoFar)

GuardTripsMut(minSinglePage, lim) == FALSE
GuardTrips(minSinglePage, lim) == minSinglePage > lim

FitsMut(size, lim) == size < lim
Fits(size, lim) == size <= lim

AdvanceStartMut(s, n) == s + n + 1
AdvanceStart(s, n) == s + n

\* high = Math.min(high * 2, pageCount - start)
NextHighLinear(hi, remaining) == Min(hi + 1, remaining)
NextHighStuck(hi, remaining) == Min(hi, remaining)
NextHigh(hi, remaining) == Min(hi * 2, remaining)

SearchUpper(lo, hi, remaining) == Max(lo, Min(hi, remaining))

ErrPageNumberMut(s) == s
ErrPageNumber(s) == s + 1

SplitPct(candidateEnd, pageCount) == Min(ProgressCap, RoundDiv(candidateEnd * 100, pageCount))

\* values of the locals of the calls that are not running
IdleSplit ==
  /\ maxSizeMB = 0 /\ limit = 0
  /\ start = 0 /\ part = 0 /\ low = 0 /\ high = 0
  /\ bestFitDoc = NoDoc /\ bestFitPages = 0 /\ l = 0 /\ r = 0
  /\ outputs = <<>> /\ probes = 0 /\ returned = <<>> /\ err = NoError

IdleFixed == pagesPerChunk = 0 /\ chunkSize = 0 /\ from = 0

IdleCompress ==
  /\ xobjects = <<>> /\ totalEstimated = 0 /\ processedImages = 0
  /\ replacedImages = 0 /\ pageI = 0 /\ keyK = 0

NoResources == [present |-> FALSE, xobject |-> FALSE, names |-> {}]

IdleRemove == resources = NoResources /\ contents = <<>> /\ readable = TRUE

NoResult == [processedDoc |-> 0, qualityUsed |-> 0]

IdleTarget ==
  /\ targetMB = 0 /\ targetBytes = 0 /\ baselineBytes = 0
  /\ lowQ = 0 /\ highQ = 0 /\ iter = 0
  /\ best = [bytes |-> 0, quality |-> 0, doc |-> 0, score |-> 0]
  /\ tried = {} /\ result = NoResult /\ graphs = <<>>

NoGraph == [pages |-> <<>>, graph |-> "none"]

IdleFlow ==
  /\ engine = "" /\ file = <<>> /\ options = <<>> /\ trace = <<>>
  /\ processedDoc = NoGraph /\ rebuild = "none" /\ output = <<>> /\ failure = ""
  /\ savingsBytes = -1

IdleWorker ==
  /\ op = "" /\ isWorkerSupported = FALSE /\ startPage = 0 /\ endPage = 0
  /\ reports = <<>> /\ newPdfDoc = NoGraph /\ answer = NoGraph /\ thrown = ""

IdleWalk == graph = <<>> /\ stack = <<>> /\ visits = <<>>

\* the worker's queue, the app's invocations and the options of the page
\* when none of them is modelled
IdleLate ==
  /\ isProcessing = FALSE /\ currentTaskId = 0 /\ taskQueue = <<>>
  /\ running = {} /\ timers = 0 /\ started = <<>> /\ terminals = <<>>
  /\ cancelled = {} /\ accepted = 0
  /\ calls = <<>> /\ parsed = <<>> /\ pdfDocument = 0
  /\ processingOptions = <<>> /\ clicks = <<>>

IdleMore == IdleTarget /\ IdleFlow /\ IdleWorker /\ IdleWalk /\ IdleLate

----------------------------------------------------------------------------
(* splitBySize *)

InitSplit ==
  /\ pc = "split_guard"
  /\ lastPct = -1
  /\ pageSizes \in UNION {[1..n -> PageSet] : n \in 0..MaxPages}
  /\ maxSizeMB \in MaxSizeInputs
  /\ limit = 0
  /\ start = 0 /\ part = 0 /\ low = 0 /\ high = 0
  /\ bestFitDoc = NoDoc /\ bestFitPages = 0 /\ l = 0 /\ r = 0
  /\ outputs = <<>> /\ probes = 0 /\ returned = <<>> /\ err = NoError
  /\ IdleFixed /\ IdleCompress /\ IdleRemove /\ IdleMore

\* limit computation and the single-page guard
SplitGuard ==
  /\ pc = "split_guard"
  /\ LET lim == LimitOf(maxSizeMB)
         minSinglePage == MinSample(0, -1)
     IN  /\ limit' = lim
         /\ IF minSinglePage = -1
            THEN /\ err' = [kind |-> "unable", page |-> 0, size |-> 0, limit |-> lim]
                 /\ pc' = "failed"
                 /\ UNCHANGED lastPct
            ELSE IF GuardTrips(minSinglePage, lim)
            THEN /\ err' = [kind |-> "limitTooSmall", page |-> 0, size |-> minSinglePage, limit |-> lim]
                 /\ lastPct' = 0
                 /\ pc' = "failed"
            ELSE /\ pc' = "chunk_begin"
                 /\ UNCHANGED <<err, lastPct>>
  /\ UNCHANGED <<pageSizes, maxSizeMB, start, part, low, high, bestFitDoc,
                 bestFitPages, l, r, outputs, probes, returned>>
  /\ UNCHANGED <<fixedVars, compressVars, removeVars, moreVars>>

\* while (start < pageCount) { low = 1; high = 1; bestFitDoc = null; ... }
ChunkBegin ==
  /\ pc = "chunk_begin"
  /\ start < Len(pageSizes)
  /\ low' = 1 /\ high' = 1 /\ bestFitDoc' = NoDoc /\ bestFitPages' = 0
  /\ probes' = 0
  /\ pc' = "probe"
  /\ UNCHANGED <<lastPct, pageSizes, maxSizeMB, limit, start, part, l, r,
                 outputs, returned, err>>
  /\ UNCHANGED <<fixedVars, compressVars, removeVars, moreVars>>

\* loop exit: return outputs
SplitReturn ==
  /\ pc = "chunk_begin"
  /\ ~(start < Len(pageSizes))
  /\ returned' = outputs
  /\ pc' = "done"
  /\ UNCHANGED <<lastPct, pageSizes, maxSizeMB, limit, start, part, low, high,
                 bestFitDoc, bestFitPages, l, r, outputs, probes, err>>
  /\ UNCHANGED <<fixedVars, compressVars, removeVars, moreVars>>

\* one iteration of the exponential probe; on break, l and r are set up
ProbeStep ==
  /\ pc = "probe"
  /\ LET pageCount == Len(pageSizes)
         candidateEnd == Min(start + high, pageCount)
         tmp == Indices(start, candidateEnd)
         size == SavedLength(tmp)
     IN  /\ probes' = probes + 1
         /\ IF Fits(size, limit) /\ candidateEnd < pageCount
            THEN /\ bestFitDoc' = tmp
                 /\ bestFitPages' = candidateEnd - start
                 /\ low' = high + 1
                 /\ high' = NextHigh(high, pageCount - start)
                 /\ UNCHANGED <<l, r, pc>>
            ELSE LET fit == Fits(size, limit)
                     newLow == IF fit THEN candidateEnd - start ELSE low
                     newL == Max(1, Min(newLow, pageCount - start))
                 IN  /\ bestFitDoc' = IF fit THEN tmp ELSE bestFitDoc
                     /\ bestFitPages' = IF fit THEN candidateEnd - start ELSE bestFitPages
                     /\ low' = newLow
                     /\ l' = newL
                     /\ r' = SearchUpper(newL, high, pageCount - start)
                     /\ pc' = "search"
                     /\ UNCHANGED high
  /\ UNCHANGED <<lastPct, pageSizes, maxSizeMB, limit, start, part, outputs,
                 returned, err>>
  /\ UNCHANGED <<fixedVars, compressVars, removeVars, moreVars>>

\* one iteration of the binary search
SearchStep ==
  /\ pc = "search"
  /\ l <= r
  /\ LET mid == (l + r) \div 2
         candidateEnd == start + mid
         tmp == Indices(start, candidateEnd)
         size == SavedLength(tmp)
     IN  /\ probes' = probes + 1
         /\ IF Fits(size, limit)
            THEN /\ bestFitDoc' = tmp /\ bestFitPages' = mid /\ l' = mid + 1
                 /\ UNCHANGED r
            ELSE /\ r' = mid - 1
                 /\ UNCHANGED <<bestFitDoc, bestFitPages, l>>
         /\ lastPct' = SplitPct(candidateEnd, Len(pageSizes))
  /\ UNCHANGED <<pc, pageSizes, maxSizeMB, limit, start, part, low, high,
                 outputs, returned, err>>
  /\ UNCHANGED <<fixedVars, compressVars, removeVars, moreVars>>

\* after the search: no fit throws the per-page error, otherwise the chunk
\* is pushed and start advances
EmitChunk ==
  /\ pc = "search"
  /\ ~(l <= r)
  /\ IF bestFitDoc = NoDoc \/ bestFitPages = 0
     THEN /\ err' = [kind |-> "page", page |-> ErrPageNumber(start),
                     size |-> SavedLength(<<start>>), limit |-> limit]
          /\ lastPct' = 0
          /\ pc' = "failed"
          /\ UNCHANGED <<outputs, start, part>>
     ELSE /\ outputs' = Append(outputs, bestFitDoc)
          /\ start' = AdvanceStart(start, bestFitPages)
          /\ part' = part + 1
          /\ pc' = "chunk_begin"
          /\ UNCHANGED <<err, lastPct>>
  /\ UNCHANGED <<pageSizes, maxSizeMB, limit, low, high, bestFitDoc,
                 bestFitPages, l, r, probes, returned>>
  /\ UNCHANGED <<fixedVars, compressVars, removeVars, moreVars>>

NextSplit == SplitGuard \/ ChunkBegin \/ SplitReturn \/ ProbeStep \/ SearchStep \/ EmitChunk

SpecSplit == InitSplit /\ [][NextSplit]_vars

(* splitBySize on longer documents: the first pages are small, the rest   *)
(* larger, so that the number of pages that fit varies with the position.  *)
(* Every await of the function is one of create, copyPages and save, which *)
(* settle, so a call that can take a step takes it.                        *)
MaxProbePages == 9

InitProbe ==
  /\ pc = "split_guard"
  /\ lastPct = -1
  /\ \E n \in 0..MaxProbePages, k \in 0..MaxProbePages :
       /\ k <= n
       /\ pageSizes = [i \in 1..n |-> [own |-> IF i <= k THEN 3 ELSE 12, shared |-> FALSE]]
  /\ maxSizeMB \in MaxSizeInputs
  /\ limit = 0
  /\ start = 0 /\ part = 0 /\ low = 0 /\ high = 0
  /\ bestFitDoc = NoDoc /\ bestFitPages = 0 /\ l = 0 /\ r = 0
  /\ outputs = <<>> /\ probes = 0 /\ returned = <<>> /\ err = NoError
  /\ IdleFixed /\ IdleCompress /\ IdleRemove /\ IdleMore

SpecProbe == InitProbe /\ [][NextSplit]_vars /\ WF_vars(NextSplit)

----------------------------------------------------------------------------
(* Properties of splitBySize *)

RECURSIVE Flatten(_)
Flatten(docs) == IF docs = <<>> THEN <<>> ELSE Head(docs) \o Flatten(Tail(docs))

Oversize(i) == SavedLength(<<i>>) > limit
OversizePages == {i \in 0..(Len(pageSizes) - 1) : Oversize(i)}
FirstOversize == CHOOSE i \in OversizePages : \A j \in OversizePages : i <= j
SampledPages == 0..(Min(GuardSamples, Len(pageSizes)) - 1)

SetMin(S) == CHOOSE x \in S : \A y \in S : x <= y

\* fewest chunks within the limit that cover pages s..P-1 (more than P: none)
Unreachable == Len(pageSizes) + 1
RECURSIVE MinChunksFrom(_)
MinChunksFrom(s) ==
  IF s >= Len(pageSizes) THEN 0
  ELSE LET opts == {n \in 1..(Len(pageSizes) - s) : SavedLength(Indices(s, s + n)) <= limit}
       IN  IF opts = {} THEN Unreachable
           ELSE 1 + SetMin({MinChunksFrom(s + n) : n \in opts})

\* ceil(log2(n)) for n >= 1
RECURSIVE CeilLog2(_)
CeilLog2(n) == IF n <= 1 THEN 0 ELSE 1 + CeilLog2((n + 1) \div 2)

\* C23: while splitBySize works on the chunk that starts with R pages
\* remaining, the serializations made by the exponential probe and the
\* binary search together number at most 2*ceil(log2(R)) + 2.
C23_ProbesLogarithmic ==
  pc \in {"probe", "search"} =>
    probes <= 2 * CeilLog2(Len(pageSizes) - start) + 2

\* the search of a chunk with eight pages remaining has ended after six
\* serializations
C23_Witness ==
  /\ pc = "search" /\ ~(l <= r)
  /\ Len(pageSizes) - start = 8 /\ probes = 6

\* C24: splitBySize terminates.  Each pass of the exponential probe that
\* stays in the loop raises high, which never exceeds the pages remaining;
\* each pass of the binary search narrows r - l; each chunk emitted moves
\* start forward by at least one page and never past the end; and every
\* call ends by returning or by throwing.
C24_Terminates ==
  /\ [][/\ (pc = "probe" /\ pc' = "probe") =>
            (high < high' /\ high' <= Len(pageSizes) - start)
        /\ (pc = "search" /\ pc' = "search") => (r' - l' < r - l)
        /\ (pc = "search" /\ pc' = "chunk_begin") =>
            (start < start' /\ start' <= Len(pageSizes))]_vars
  /\ <>(pc \in {"done", "failed"})

\* a call on nine pages that returned three or more chunks
C24_Witness ==
  /\ pc = "done" /\ Len(pageSizes) = 9 /\ Len(returned) >= 3

\* C1: when splitBySize returns for a document of P >= 1 pages, the chunks
\* read in order are pages 0..P-1 exactly once each in ascending order and
\* every chunk is non-empty.
C1_SplitCompleteOrdered ==
  (pc = "done" /\ Len(pageSizes) >= 1) =>
    /\ Flatten(returned) = Indices(0, Len(pageSizes))
    /\ \A k \in 1..Len(returned) : Len(returned[k]) >= 1

C1_Witness ==
  /\ pc = "done"
  /\ Len(returned) >= 2
  /\ \E k \in 1..Len(returned) : Len(returned[k]) >= 2

\* C2: every returned chunk serializes to at most the requested maxSizeMB
\* megabytes, for every positive maxSizeMB including fractional values.
C2_ChunkWithinRequested ==
  (pc = "done" /\ maxSizeMB > 0) =>
    \A k \in 1..Len(returned) : SavedLength(returned[k]) <= maxSizeMB

\* C3: with sizes that never shrink when a page is appended, every returned
\* chunk but the last is maximal (the next source page would not fit) and
\* the number of chunks is the minimum possible.
C3_SplitMinimal ==
  pc = "done" =>
    /\ \A k \in 1..(Len(returned) - 1) :
         SavedLength(Append(returned[k], returned[k + 1][1])) > limit
    /\ Len(returned) = MinChunksFrom(0)

C3_Witness ==
  /\ pc = "done"
  /\ Len(returned) >= 2
  /\ SavedLength(returned[1]) = limit
  /\ Len(returned[1]) >= 3

\* C4: when the limit is below the smallest single-page serialization of the
\* document, the call fails in the guard with the limit-too-small error that
\* carries the minimum observed size and the limit, before any chunk is
\* built, and nothing is returned.
C4_GuardFails ==
  (/\ pc # "split_guard"
   /\ Len(pageSizes) >= 1
   /\ \A i \in 0..(Len(pageSizes) - 1) : SavedLength(<<i>>) > LimitOf(maxSizeMB)) =>
    /\ pc = "failed"
    /\ err.kind = "limitTooSmall"
    /\ err.size = SetMin({SavedLength(<<i>>) : i \in SampledPages})
    /\ err.limit = LimitOf(maxSizeMB)
    /\ probes = 0 /\ outputs = <<>> /\ returned = <<>>

C4_Witness ==
  /\ pc = "failed"
  /\ err.kind = "limitTooSmall"
  /\ Len(pageSizes) >= 2
  /\ \A i \in 0..(Len(pageSizes) - 1) : SavedLength(<<i>>) > limit

\* C5 (as stated): if any single page serializes alone to more than the
\* limit, the failure is a per-page error naming an oversized page.
C5_PerPageErrorAlways ==
  (pc = "failed" /\ OversizePages # {}) =>
    /\ err.kind = "page"
    /\ (err.page - 1) \in OversizePages

\* C5 (amended): with sizes that never shrink when a page run is extended,
\* if any single page serializes alone to more than the limit the call
\* never returns and a failure returns no output document; the
\* failure is the guard's limit-too-small error when every sampled page
\* exceeds the limit, and otherwise the per-page error naming the first
\* oversized page (1-based).
C5_OversizeFails ==
  (pc \notin {"split_guard"} /\ limit > 0 /\ OversizePages # {}) =>
    /\ pc # "done"
    /\ returned = <<>>
    /\ pc = "failed" =>
         IF \A i \in SampledPages : Oversize(i)
         THEN err.kind = "limitTooSmall"
         ELSE err.kind = "page" /\ err.page = FirstOversize + 1

C5_Witness ==
  /\ pc = "failed"
  /\ err.kind = "page"
  /\ err.page > GuardSamples
  /\ Len(outputs) >= 1
  /\ returned = <<>>

----------------------------------------------------------------------------
(* splitByPagesFixed *)

(* Bounds *)
MaxChunk == 4
MaxFixedPages == 10

Int32Max == 2147483647

\* Number(x) | 0 for an integer x below 2^32: wraps into the int32 range
ToInt32(x) == IF x > Int32Max THEN (x - Int32Max) - Int32Max - 2 ELSE x

FixedToMut(f, size, pageCount) == Min(pageCount, f + size)
FixedTo(f, size, pageCount) == Min(pageCount, f + size - 1)

FixedPct(to, pageCount) == Min(ProgressCap, RoundDiv(to * 100, pageCount))

InitFixed ==
  /\ pc = "fixed_start"
  /\ lastPct = -1
  /\ pageSizes \in UNION {[1..n -> {[own |-> 3, shared |-> FALSE]}] : n \in 0..MaxFixedPages}
  /\ pagesPerChunk \in 1..MaxChunk
  /\ chunkSize = 0 /\ from = 0
  /\ IdleSplit /\ IdleCompress /\ IdleRemove /\ IdleMore

\* const chunkSize = Math.max(1, Number(pagesPerChunk) | 0); let from = 1
FixedStart ==
  /\ pc = "fixed_start"
  /\ chunkSize' = Max(1, ToInt32(pagesPerChunk))
  /\ from' = 1
  /\ part' = 0
  /\ pc' = "fixed_loop"
  /\ UNCHANGED <<lastPct, pageSizes, pagesPerChunk, maxSizeMB, limit, start,
                 low, high, bestFitDoc, bestFitPages, l, r, outputs, probes,
                 returned, err, compressVars, removeVars, moreVars>>

\* one iteration of while (from <= pageCount) in which copyPages succeeds
FixedChunk ==
  /\ pc = "fixed_loop"
  /\ from <= Len(pageSizes)
  /\ LET pageCount == Len(pageSizes)
         to == FixedTo(from, chunkSize, pageCount)
         partDoc == Indices(from - 1, to)
     IN  /\ outputs' = Append(outputs, partDoc)
         /\ part' = part + 1
         /\ lastPct' = FixedPct(to, pageCount)
         /\ from' = to + 1
  /\ UNCHANGED <<pc, pageSizes, pagesPerChunk, chunkSize, maxSizeMB, limit,
                 start, low, high, bestFitDoc, bestFitPages, l, r, probes,
                 returned, err, compressVars, removeVars, moreVars>>

\* an iteration in which PDFDocument.create or copyPages throws: the catch
\* block returns the chunks pushed so far
FixedCopyFailsMut ==
  /\ pc = "fixed_loop"
  /\ from <= Len(pageSizes)
  /\ err' = [kind |-> "thrown", page |-> from, size |-> 0, limit |-> 0]
  /\ pc' = "failed"
  /\ UNCHANGED <<lastPct, pageSizes, fixedVars, maxSizeMB, limit, start, part,
                 low, high, bestFitDoc, bestFitPages, l, r, outputs, probes,
                 returned, compressVars, removeVars, moreVars>>
FixedCopyFails ==
  /\ pc = "fixed_loop"
  /\ from <= Len(pageSizes)
  /\ returned' = outputs
  /\ err' = [kind |-> "swallowed", page |-> from, size |-> 0, limit |-> 0]
  /\ pc' = "done"
  /\ UNCHANGED <<lastPct, pageSizes, fixedVars, maxSizeMB, limit, start, part,
                 low, high, bestFitDoc, bestFitPages, l, r, outputs, probes,
                 compressVars, removeVars, moreVars>>

\* loop exit: return outputs
FixedReturn ==
  /\ pc = "fixed_loop"
  /\ ~(from <= Len(pageSizes))
  /\ returned' = outputs
  /\ pc' = "done"
  /\ UNCHANGED <<lastPct, pageSizes, fixedVars, maxSizeMB, limit, start, part,
                 low, high, bestFitDoc, bestFitPages, l, r, outputs, probes,
                 err, compressVars, removeVars, moreVars>>

NextFixed == FixedStart \/ FixedChunk \/ FixedReturn

SpecFixed == InitFixed /\ [][NextFixed]_vars

NextFixedFaulty == NextFixed \/ FixedCopyFails

SpecFixedFaulty == InitFixed /\ [][NextFixedFaulty]_vars

CeilDiv(a, b) == (a + b - 1) \div b

\* C28: when copying pages fails while splitByPagesFixed builds a chunk, the
\* call does not throw: it returns the chunks completed before, which cover
\* a proper prefix of the source pages in order (possibly none), and the
\* caller gets no error.
C28_CopyFailureReturnsPrefix ==
  /\ pc # "failed"
  /\ (pc = "done" /\ err.kind = "swallowed") =>
       /\ returned = outputs
       /\ Flatten(returned) = Indices(0, from - 1)
       /\ from - 1 < Len(pageSizes)

\* a copy failed on the second chunk: one chunk of two pages came back
C28_Witness ==
  /\ pc = "done" /\ err.kind = "swallowed"
  /\ Len(pageSizes) >= 3 /\ returned = << <<0, 1>> >>

----------------------------------------------------------------------------
(* compressImagesInMainThread, as called by the compression branch of      *)
(* processPDF.  An image entry records the byte length of the object its   *)
(* XObject name referred to at the start (orig), whether Width and Height  *)
(* are present (dims), whether createImageBitmap can decode its bytes      *)
(* (decodable), the object the name refers to now (ref) and that object's  *)
(* byte length (size).                                                     *)

(* Bounds *)
MaxCompressPages == 2
MaxImagesPerPage == 1

(* Program constants *)
PrepPct == 10          \* 'Preparing compression...' and the base of pct
PctSpan == 70          \* Math.floor((processedImages / totalEstimated) * 70)
ImagePctCap == 85      \* Math.min(85, ...)
PagePctCap == 90       \* Math.min(90, ...)
SavingPct == 90        \* 'Saving PDF...'
CompletePct == 100     \* 'Compression complete'

(* Inputs: an empty payload never decodes *)
ImageSet ==
  {[orig |-> 0, dims |-> TRUE, decodable |-> FALSE],
   [orig |-> 4, dims |-> FALSE, decodable |-> TRUE],
   [orig |-> 4, dims |-> TRUE, decodable |-> FALSE],
   [orig |-> 4, dims |-> TRUE, decodable |-> TRUE]}
NewLenSet == {3, 4, 5}

Entry(img) == [orig |-> img.orig, dims |-> img.dims, decodable |-> img.decodable,
               size |-> img.orig, ref |-> "original"]

PageEntries == UNION {[1..n -> {Entry(img) : img \in ImageSet}] : n \in 0..MaxImagesPerPage}

RECURSIVE CountImages(_)
CountImages(pages) ==
  IF pages = <<>> THEN 0 ELSE Len(Head(pages)) + CountImages(Tail(pages))

\* if (!newBytes || (origSize && newBytes.length >= origSize)) return false
KeepsOriginalMut(origSize, newLen) == origSize # 0 /\ newLen > origSize
KeepsOriginal(origSize, newLen) == origSize # 0 /\ newLen >= origSize

\* result of recompressJpeg: TRUE when the entry is repointed
Recompress(e, newLen, throws) ==
  IF ~e.dims THEN FALSE
  ELSE IF ~e.decodable THEN FALSE
  ELSE IF KeepsOriginal(e.size, newLen) THEN FALSE
  ELSE ~throws

ImagePct(processed, total) ==
  IF total # 0 THEN Min(ImagePctCap, PrepPct + ((processed * PctSpan) \div total)) ELSE PrepPct

PagePct(i, pageCount, total) ==
  IF total # 0 THEN Min(PagePctCap, PrepPct + (((i + 1) * PctSpan) \div pageCount))
  ELSE PrepPct + (((i + 1) * PctSpan) \div pageCount)

InitCompress ==
  /\ pc = "process_compress"
  /\ lastPct = -1
  /\ xobjects \in UNION {[1..n -> PageEntries] : n \in 1..MaxCompressPages}
  /\ totalEstimated = 0 /\ processedImages = 0 /\ replacedImages = 0
  /\ pageI = 0 /\ keyK = 0
  /\ pageSizes = <<>>
  /\ IdleSplit /\ IdleFixed /\ IdleRemove /\ IdleMore

\* processPDF: progressCallback({percentage: 10}) before the call
ProcessCompressBegin ==
  /\ pc = "process_compress"
  /\ lastPct' = PrepPct
  /\ pc' = "compress_start"
  /\ UNCHANGED <<splitVars, fixedVars, compressVars, removeVars, moreVars>>

\* totalEstimated, the counters, and the entry into the page loop
CompressStart ==
  /\ pc = "compress_start"
  /\ totalEstimated' = CountImages(xobjects)
  /\ processedImages' = 0 /\ replacedImages' = 0
  /\ pageI' = 0 /\ keyK' = 1
  /\ pc' = "compress_page"
  /\ UNCHANGED <<lastPct, xobjects, splitVars, fixedVars, removeVars, moreVars>>

\* compressInDict: one Image entry of the current page is visited
CompressImage ==
  /\ pc = "compress_page"
  /\ pageI < Len(xobjects)
  /\ keyK <= Len(xobjects[pageI + 1])
  /\ \E newLen \in NewLenSet, throws \in BOOLEAN :
       LET e == xobjects[pageI + 1][keyK]
       IN  IF Recompress(e, newLen, throws)
           THEN /\ xobjects' = [xobjects EXCEPT ![pageI + 1][keyK] =
                                  [e EXCEPT !.size = newLen, !.ref = "embedded"]]
                /\ replacedImages' = replacedImages + 1
           ELSE UNCHANGED <<xobjects, replacedImages>>
  /\ processedImages' = processedImages + 1
  /\ lastPct' = ImagePct(processedImages + 1, totalEstimated)
  /\ keyK' = keyK + 1
  /\ UNCHANGED <<pc, totalEstimated, pageI, splitVars, fixedVars, removeVars, moreVars>>

\* end of compressInDict for page i: the per-page progress report
CompressPageDone ==
  /\ pc = "compress_page"
  /\ pageI < Len(xobjects)
  /\ keyK > Len(xobjects[pageI + 1])
  /\ lastPct' = PagePct(pageI, Len(xobjects), totalEstimated)
  /\ pageI' = pageI + 1
  /\ keyK' = 1
  /\ UNCHANGED <<pc, xobjects, totalEstimated, processedImages, replacedImages,
                 splitVars, fixedVars, removeVars, moreVars>>

\* return pdfDoc
CompressReturn ==
  /\ pc = "compress_page"
  /\ ~(pageI < Len(xobjects))
  /\ pc' = "process_saving"
  /\ UNCHANGED <<lastPct, splitVars, fixedVars, compressVars, removeVars, moreVars>>

\* processPDF: rebuild, then progressCallback({percentage: 90})
ProcessSaving ==
  /\ pc = "process_saving"
  /\ lastPct' = SavingPct
  /\ pc' = "process_complete"
  /\ UNCHANGED <<splitVars, fixedVars, compressVars, removeVars, moreVars>>

\* processPDF: save, progressCallback({percentage: 100}), return
ProcessComplete ==
  /\ pc = "process_complete"
  /\ lastPct' = CompletePct
  /\ pc' = "done"
  /\ UNCHANGED <<splitVars, fixedVars, compressVars, removeVars, moreVars>>

NextCompress ==
  \/ ProcessCompressBegin \/ CompressStart \/ CompressImage
  \/ CompressPageDone \/ CompressReturn \/ ProcessSaving \/ ProcessComplete

SpecCompress == InitCompress /\ [][NextCompress]_vars

AllEntries == {<<p, k>> : p \in 1..MaxCompressPages + 1, k \in 1..MaxImagesPerPage + 1}
Entries == {pk \in AllEntries : pk[1] <= Len(xobjects) /\ pk[2] <= Len(xobjects[pk[1]])}

\* C7: an XObject entry is repointed to a newly embedded object only if the
\* re-encoded length is strictly smaller than the original length; in every
\* other case (equal or larger, decode failure, missing dimensions) it still
\* points to the original object, and the replaced-image counter counts
\* exactly the repointed entries.
C7_ReplaceOnlyIfSmaller ==
  /\ \A pk \in Entries :
       LET e == xobjects[pk[1]][pk[2]]
       IN  /\ e.ref = "embedded" => (e.size < e.orig /\ e.dims /\ e.decodable)
           /\ e.ref = "original" => e.size = e.orig
  /\ replacedImages = Cardinality({pk \in Entries : xobjects[pk[1]][pk[2]].ref = "embedded"})

C7_Witness ==
  /\ pc = "done"
  /\ replacedImages = 1
  /\ processedImages >= 2
  /\ \E pk \in Entries : xobjects[pk[1]][pk[2]].ref = "embedded"
  /\ \E pk \in Entries : LET e == xobjects[pk[1]][pk[2]]
                         IN  e.ref = "original" /\ e.dims /\ e.decodable

\* C8: within one invocation the percentages handed to progressCallback
\* never decrease and lie in 0..100.
C8_ProgressMonotone == [][lastPct' >= lastPct /\ lastPct' \in 0..100]_vars

----------------------------------------------------------------------------
(* removeImagesFromPage and cleanContentStream.  The decoded content       *)
(* stream is the sequence of its whitespace-separated tokens: the          *)
(* operators q, Q and Tj (a text-showing operator), "Do" for a name        *)
(* operand followed by Do (/Im1 Do), the inline-image operators BI, ID and *)
(* EI, and "d" for an operand or data token inside an inline image.  The   *)
(* three replace() calls are modelled by what their patterns match on the  *)
(* token sequence of a syntactically valid content stream.                 *)

(* Bounds *)
MaxTokens == 5

Tokens == {"q", "Q", "Tj", "Do", "BI", "ID", "EI", "d"}

\* Subtype of the XObject a name refers to
Subtype(name) == IF name = "Im1" THEN "Image" ELSE "Form"

\* index of the first token t at a position >= i, or 0
RECURSIVE IndexFrom(_, _, _)
IndexFrom(ts, t, i) ==
  IF i > Len(ts) THEN 0
  ELSE IF ts[i] = t THEN i
  ELSE IndexFrom(ts, t, i + 1)

\* /q[^Q]*?\/\w+\s+Do\s*Q/ matched at token i: the index of the closing Q,
\* or 0.  [^Q]*? cannot cross a Q, so the Q is the first one after i and the
\* token before it must be the name-and-Do.
BlockEnd(ts, i) ==
  IF ts[i] # "q" THEN 0
  ELSE LET j == IndexFrom(ts, "Q", i + 1)
       IN  IF j # 0 /\ j - 1 > i /\ ts[j - 1] = "Do" THEN j ELSE 0

\* modified.replace(/q[^Q]*?\/\w+\s+Do\s*Q/g, '')
RECURSIVE RemoveBlocks(_, _)
RemoveBlocks(ts, i) ==
  IF i > Len(ts) THEN <<>>
  ELSE IF BlockEnd(ts, i) # 0 THEN RemoveBlocks(ts, BlockEnd(ts, i) + 1)
  ELSE <<ts[i]>> \o RemoveBlocks(ts, i + 1)

\* modified.replace(/\/\w+\s+Do/g, '')
RemoveDo(ts) == SelectSeq(ts, LAMBDA t : t # "Do")

\* first ID at a position >= i that is followed, at least two tokens later,
\* by an EI; 0 if there is none
RECURSIVE InlineID(_, _)
InlineID(ts, i) ==
  LET j == IndexFrom(ts, "ID", i)
  IN  IF j = 0 THEN 0
      ELSE IF IndexFrom(ts, "EI", j + 2) # 0 THEN j
      ELSE InlineID(ts, j + 1)

\* /BI\s+[\s\S]*?\s+ID\s+[\s\S]*?\s+EI/ matched at token i: the index of the
\* EI, or 0.  Each \s+...\s+ pair needs a token between the two keywords.
InlineEnd(ts, i) ==
  IF ts[i] # "BI" THEN 0
  ELSE LET j == InlineID(ts, i + 2)
       IN  IF j = 0 THEN 0 ELSE IndexFrom(ts, "EI", j + 2)

\* modified.replace(/BI\s+[\s\S]*?\s+ID\s+[\s\S]*?\s+EI/g, '')
RECURSIVE RemoveInline(_, _)
RemoveInline(ts, i) ==
  IF i > Len(ts) THEN <<>>
  ELSE IF InlineEnd(ts, i) # 0 THEN RemoveInline(ts, InlineEnd(ts, i) + 1)
  ELSE <<ts[i]>> \o RemoveInline(ts, i + 1)

\* the three replacements of cleanContentStream, in order
Modified(contentStream) ==
  RemoveInline(RemoveDo(RemoveBlocks(contentStream, 1)), 1)

\* if (modified !== contentStream && modified.trim()) pageDict.set('Contents', ...)
CleanContentStream(contentStream) ==
  LET modified == Modified(contentStream)
  IN  IF modified # contentStream /\ modified # <<>> THEN modified ELSE contentStream

\* the XObject dictionary after the entries of subtype Image are dropped
CleanXObjects(res) ==
  IF ~res.xobject THEN res
  ELSE LET kept == {n \in res.names : Subtype(n) # "Image"}
       IN  IF kept # {} THEN [res EXCEPT !.names = kept]
           ELSE [res EXCEPT !.xobject = FALSE, !.names = {}]

\* a content stream a PDF page can hold: q/Q nest properly and every inline
\* image is BI <entries> ID <data> EI
RECURSIVE WellFormedFrom(_, _, _, _, _)
WellFormedFrom(ts, i, depth, mode, n) ==
  IF i > Len(ts) THEN depth = 0 /\ mode = "op"
  ELSE LET t == ts[i]
       IN  CASE mode = "op" ->
                  IF t = "q" THEN WellFormedFrom(ts, i + 1, depth + 1, "op", 0)
                  ELSE IF t = "Q" THEN depth > 0 /\ WellFormedFrom(ts, i + 1, depth - 1, "op", 0)
                  ELSE IF t \in {"Tj", "Do"} THEN WellFormedFrom(ts, i + 1, depth, "op", 0)
                  ELSE IF t = "BI" THEN WellFormedFrom(ts, i + 1, depth, "dict", 0)
                  ELSE FALSE
             [] mode = "dict" ->
                  IF t = "d" THEN WellFormedFrom(ts, i + 1, depth, "dict", 1)
                  ELSE IF t = "ID" THEN n = 1 /\ WellFormedFrom(ts, i + 1, depth, "data", 0)
                  ELSE FALSE
             [] OTHER ->
                  IF t = "d" THEN WellFormedFrom(ts, i + 1, depth, "data", 1)
                  ELSE IF t = "EI" THEN n = 1 /\ WellFormedFrom(ts, i + 1, depth, "op", 0)
                  ELSE FALSE

ContentStreams ==
  {ts \in UNION {[1..n -> Tokens] : n \in 0..MaxTokens} : WellFormedFrom(ts, 1, 0, "op", 0)}

ResourceDicts ==
  {NoResources, [present |-> TRUE, xobject |-> FALSE, names |-> {}]}
  \cup {[present |-> TRUE, xobject |-> TRUE, names |-> ns] : ns \in (SUBSET {"Im1", "Fm1"}) \ {{}}}

HasDo(ts) == \E i \in 1..Len(ts) : ts[i] = "Do"

InitRemove ==
  /\ pc = "remove_page"
  /\ lastPct = -1
  /\ contents \in ContentStreams
  /\ resources \in ResourceDicts
  /\ readable \in BOOLEAN
  /\ HasDo(contents) => "Im1" \in resources.names
  /\ pageSizes = <<>>
  /\ IdleSplit /\ IdleFixed /\ IdleCompress /\ IdleMore

\* removeImagesFromPage: a page without Resources is left alone; otherwise
\* the XObject dictionary is rewritten and then the content stream is
\* cleaned.  readable: the stream objects of Contents can be looked up and
\* decoded; if not, cleanContentStream logs and returns.  Every throw ends
\* in a catch of the two functions, so the page loop of removeImages goes on.
RemoveImagesFromPage ==
  /\ pc = "remove_page"
  /\ IF ~resources.present
     THEN UNCHANGED <<resources, contents>>
     ELSE /\ resources' = CleanXObjects(resources)
          /\ contents' = IF readable THEN CleanContentStream(contents) ELSE contents
  /\ pc' = "removed"
  /\ UNCHANGED readable
  /\ UNCHANGED <<lastPct, splitVars, fixedVars, compressVars, moreVars>>

NextRemove == RemoveImagesFromPage

SpecRemove == InitRemove /\ [][NextRemove]_vars

\* the text operators of a stream, in order
TextOperators(ts) == SelectSeq(ts, LAMBDA t : t = "Tj")

\* C9: cleaning a content stream leaves the count and relative order of all
\* operators other than Do and BI/ID/EI identical; in particular every text
\* operator of the input is still present in the output (the part of the
\* claim stated here).
C9_TextOperatorsPreserved ==
  [][TextOperators(contents') = TextOperators(contents)]_vars

\* C10: after image removal has processed a page, its XObject dictionary has
\* no entry of subtype Image and its content stream has no /Name Do naming
\* a removed image.
C10_NoImageReferenced ==
  pc = "removed" =>
    /\ \A n \in resources.names : Subtype(n) # "Image"
    /\ ~HasDo(contents)

\* q and Q nest properly from token i on, with depth blocks open
RECURSIVE Balanced(_, _, _)
Balanced(ts, i, depth) ==
  IF i > Len(ts) THEN depth = 0
  ELSE IF ts[i] = "q" THEN Balanced(ts, i + 1, depth + 1)
  ELSE IF ts[i] = "Q" THEN depth > 0 /\ Balanced(ts, i + 1, depth - 1)
  ELSE Balanced(ts, i + 1, depth)

\* C16: the content stream of a page has balanced q/Q before image removal
\* and still has after it: no unmatched q and no unmatched Q is left, also
\* when the image is painted inside nested q ... q ... Do ... Q ... Q blocks.
C16_StaysBalanced == Balanced(contents, 1, 0)

\* C17: when the content stream of a page cannot be read or decoded, image
\* removal leaves the page as it was: neither the resource/XObject
\* dictionary nor the content stream changes.
C17_UnreadableUntouched ==
  [][~readable => (resources' = resources /\ contents' = contents)]_vars

----------------------------------------------------------------------------
(* compressToTargetSize.  Byte lengths are in bytes.  A candidate is the    *)
(* clone built in one iteration, named by the number of that iteration     *)
(* (1..6); document 0 is the pdfDoc argument.  The byte length a quality   *)
(* gives is free: every iteration tries a quality no earlier iteration     *)
(* tried, so drawing the length when the candidate is saved covers every   *)
(* assignment of lengths to qualities.                                     *)

(* Program constants *)
MiB == 1048576         \* 1024 * 1024
OverPenalty == 10000000 \* bytes - targetBytes + 10_000_000
TuneIters == 6         \* for (let iter = 0; iter < 6; iter++)
LowQ0 == 10            \* let lowQ = 10
HighQ0 == 90           \* let highQ = 90
MaxQ == 100            \* Math.min(100, mid + 1)
AsIsQuality == 100     \* qualityUsed: 100 of the early exit
TunePctBase == 15      \* percentage: 15 + iter * 8
TunePctStep == 8
SelectedPct == 80      \* 'Selected q=...'

\* a value above every byte length of the model, for Infinity
Infinity == Int32Max

(* Inputs *)
TargetInputs == {1, 20}
CandidateBytes == {MiB \div 2, 5 * MiB, 20 * MiB, 25 * MiB, 40 * MiB}

\* Math.max(1, Math.round(Number(targetMB) * 1024 * 1024))
TargetBytesOf(mb) == Max(1, mb * MiB)

\* bytes <= targetBytes ? (targetBytes - bytes) : (bytes - targetBytes + 10_000_000)
Score(bytes, target) ==
  IF bytes <= target THEN target - bytes ELSE bytes - target + OverPenalty

\* the image XObjects of the pdfDoc argument: ok tells whether recompressJpeg
\* replaces the image, applied lists the qualities it was re-encoded at
ImageInputs ==
  {<<[ok |-> TRUE, applied |-> <<>>]>>,
   <<[ok |-> TRUE, applied |-> <<>>], [ok |-> FALSE, applied |-> <<>>]>>}

\* cloneDoc(doc): a fresh document, here named fresh, that holds copies of
\* the pages of doc and of every object they reach
CloneDocMut(doc, fresh) == doc
CloneDoc(doc, fresh) == fresh

\* the images of a document that held imgs, after
\* compressImagesInMainThread(working, quality, null)
CompressedImages(imgs, quality) ==
  [i \in 1..Len(imgs) |->
     IF imgs[i].ok THEN [imgs[i] EXCEPT !.applied = Append(@, quality)] ELSE imgs[i]]

InitTarget ==
  /\ pc = "target_baseline"
  /\ lastPct = -1
  /\ targetMB \in TargetInputs
  /\ targetBytes = 0 /\ baselineBytes = 0
  /\ lowQ = 0 /\ highQ = 0 /\ iter = 0
  /\ best = [bytes |-> 0, quality |-> 0, doc |-> 0, score |-> 0]
  /\ tried = {} /\ result = NoResult
  /\ graphs \in {[d \in {0} |-> imgs] : imgs \in ImageInputs}
  /\ pageSizes = <<>>
  /\ IdleSplit /\ IdleFixed /\ IdleCompress /\ IdleRemove /\ IdleFlow /\ IdleWorker
  /\ IdleWalk /\ IdleLate

\* targetBytes, the baseline save (Infinity when it throws) and the early exit
TargetBaseline ==
  /\ pc = "target_baseline"
  /\ targetBytes' = TargetBytesOf(targetMB)
  /\ \E b \in CandidateBytes \cup {Infinity} :
       /\ baselineBytes' = b
       /\ IF b <= TargetBytesOf(targetMB)
          THEN /\ result' = [processedDoc |-> 0, qualityUsed |-> AsIsQuality]
               /\ pc' = "target_done"
               /\ UNCHANGED <<lowQ, highQ, best>>
          ELSE /\ lowQ' = LowQ0 /\ highQ' = HighQ0
               /\ best' = [bytes |-> Infinity, quality |-> LowQ0, doc |-> 0,
                           score |-> Infinity]
               /\ pc' = "target_loop"
               /\ UNCHANGED result
  /\ UNCHANGED <<lastPct, targetMB, iter, tried, graphs>>
  /\ UNCHANGED <<splitVars, fixedVars, compressVars, removeVars, flowVars, workerVars,
                 walkVars, lateVars>>

\* one iteration of the quality search: clone, compress at mid, save, score
TargetIter ==
  /\ pc = "target_loop"
  /\ iter < TuneIters
  /\ LET mid == (lowQ + highQ) \div 2
         working == CloneDoc(0, iter + 1)
     IN  \E bytes \in CandidateBytes :
           LET score == Score(bytes, targetBytes)
           IN  /\ lastPct' = TunePctBase + iter * TunePctStep
               /\ graphs' = [d \in DOMAIN graphs \cup {working} |->
                               IF d = working THEN CompressedImages(graphs[0], mid)
                               ELSE graphs[d]]
               /\ tried' = tried \cup {[doc |-> working, quality |-> mid, bytes |-> bytes]}
               /\ best' = IF score < best.score
                          THEN [bytes |-> bytes, quality |-> mid, doc |-> working,
                                score |-> score]
                          ELSE best
               /\ IF bytes > targetBytes
                  THEN highQ' = Max(lowQ, mid - 1) /\ UNCHANGED lowQ
                  ELSE lowQ' = Min(MaxQ, mid + 1) /\ UNCHANGED highQ
  /\ iter' = iter + 1
  /\ UNCHANGED <<pc, targetMB, targetBytes, baselineBytes, result>>
  /\ UNCHANGED <<splitVars, fixedVars, compressVars, removeVars, flowVars, workerVars,
                 walkVars, lateVars>>

\* after the loop: progress 80 and return of best.doc
TargetReturn ==
  /\ pc = "target_loop"
  /\ ~(iter < TuneIters)
  /\ lastPct' = SelectedPct
  /\ result' = [processedDoc |-> best.doc, qualityUsed |-> best.quality]
  /\ pc' = "target_done"
  /\ UNCHANGED <<targetMB, targetBytes, baselineBytes, lowQ, highQ, iter, best, tried,
                 graphs>>
  /\ UNCHANGED <<splitVars, fixedVars, compressVars, removeVars, flowVars, workerVars,
                 walkVars, lateVars>>

NextTarget == TargetBaseline \/ TargetIter \/ TargetReturn

SpecTarget == InitTarget /\ [][NextTarget]_vars

\* C11: when the unmodified document exceeds the target, the returned
\* document is a tried candidate; it is the largest of the tried candidates
\* of at most targetBytes if there is one, and otherwise the smallest of the
\* tried candidates.
C11_BestWithinTarget ==
  (pc = "target_done" /\ baselineBytes > targetBytes) =>
    /\ result.processedDoc \in {c.doc : c \in tried}
    /\ LET chosen == CHOOSE c \in tried : c.doc = result.processedDoc
           within == {c \in tried : c.bytes <= targetBytes}
       IN  IF within # {}
           THEN chosen \in within /\ \A c \in within : c.bytes <= chosen.bytes
           ELSE \A c \in tried : chosen.bytes <= c.bytes

\* C25: compressToTargetSize never mutates the document it is given and
\* every candidate is the recompression of a fresh copy of it: throughout
\* the call the images of the input are as they were, and the images of a
\* candidate are those of the input re-encoded once, at the candidate's
\* quality, whatever qualities were tried before.
C25_InputNeverMutated ==
  /\ \A i \in 1..Len(graphs[0]) : graphs[0][i].applied = <<>>
  /\ \A c \in tried : graphs[c.doc] = CompressedImages(graphs[0], c.quality)

\* a returned call that tried six candidates on a two-image document and
\* chose one of them
C25_Witness ==
  /\ pc = "target_done" /\ Cardinality(tried) = TuneIters
  /\ Len(graphs[0]) = 2 /\ result.processedDoc # 0
  /\ graphs[result.processedDoc][1].applied = <<result.qualityUsed>>

----------------------------------------------------------------------------
(* The two engines: processPDF (legacy) and createEnhancedEngine().process. *)
(* One action is one stage of an invocation; trace records the stages as   *)
(* they are entered: Loaded when loadPDF has returned, Removing,           *)
(* Compressing and Splitting when the removal, compression or split call   *)
(* is made, Rebuilding when the copy-into-a-fresh-document block runs,     *)
(* Saving when save() is called, Done when the result object is returned   *)
(* and Failed when the invocation rejects.  A document is its pages (the   *)
(* 0-based page indices of the parsed file, in order) and the graph that   *)
(* holds them.  The text of options.pageRange is held parsed: kind "range" *)
(* for digits-digits with its two numbers, kind "number" otherwise with    *)
(* Number(txt), 0 standing for a text that gives no positive number.       *)
(* Progress reports are modelled with the calls that make them.            *)

(* Bounds *)
MaxFlowPages == 2

(* Program constants *)
DefaultPagesPerChunk == 10   \* Number(txt) || 10

(* Inputs *)
FileInputs ==
  {f \in [type : {"application/pdf", "text/plain"}, name : {"a.pdf", "A.PDF", "a.txt"},
          size : {0, 9}, parses : BOOLEAN, pageCount : 0..MaxFlowPages] :
     /\ f.size = 0 => ~f.parses
     /\ ~f.parses => f.pageCount = 0}

OptionInputs ==
  [removeImages : BOOLEAN, imageCompression : BOOLEAN, splitPDF : BOOLEAN,
   splitMethod : {"pages", "size"},
   pageRange : {[kind |-> "range", a |-> 1, b |-> 2], [kind |-> "range", a |-> 2, b |-> 1],
                [kind |-> "number", a |-> 1, b |-> 0], [kind |-> "number", a |-> 0, b |-> 0]}]

\* byte lengths save() may give (the valid input file has 9 bytes); for a
\* split, the sum over the parts
SavedLengths == {4, 12}

\* estimateCompression(originalSize, compressedSize).savingsBytes
SavingsBytesMut(originalSize, compressedSize) == Max(0, originalSize)
SavingsBytes(originalSize, compressedSize) == Max(0, originalSize - compressedSize)

\* file.name.toLowerCase().endsWith('.pdf')
EndsWithPdf(name) == name \in {"a.pdf", "A.PDF"}

\* validatePDF of a non-null file
ValidatePDF(f) ==
  /\ f.type = "application/pdf" \/ EndsWithPdf(f.name)
  /\ f.size # 0

\* startPage < 1 || endPage > pageCount || startPage > endPage
InvalidRangeMut(a, b, n) == a < 1 \/ b > n
InvalidRange(a, b, n) == a < 1 \/ b > n \/ a > b

\* the pages copyPages(d, idx) hands back, in the order of idx
CopyPages(d, idx) == [i \in 1..Len(idx) |-> d.pages[idx[i] + 1]]

\* rebuilt.copyPages(doc, [0 .. pageCount - 1]) added to a fresh document
RebuiltMut(d) == [pages |-> CopyPages(d, Indices(0, Len(d.pages) - 1)), graph |-> "rebuilt"]
Rebuilt(d) == [pages |-> CopyPages(d, Indices(0, Len(d.pages))), graph |-> "rebuilt"]

\* the documents splitByPagesFixed pushes for pages from..P in chunks of k
RECURSIVE FixedParts(_, _, _)
FixedParts(f, k, P) ==
  IF f > P THEN <<>>
  ELSE LET to == FixedTo(f, k, P)
       IN  <<Indices(f - 1, to)>> \o FixedParts(to + 1, k, P)

InitFlow ==
  /\ pc = "flow_idle"
  /\ lastPct = -1
  /\ engine \in {"legacy", "enhanced"}
  /\ file \in FileInputs
  /\ options \in OptionInputs
  /\ trace = <<"Idle">>
  /\ processedDoc = NoGraph /\ rebuild = "none" /\ output = <<>> /\ failure = ""
  /\ savingsBytes = -1
  /\ pageSizes = <<>>
  /\ IdleSplit /\ IdleFixed /\ IdleCompress /\ IdleRemove /\ IdleTarget /\ IdleWorker
  /\ IdleWalk /\ IdleLate

\* the invocation rejects while in the stage just entered (or in loadPDF)
Fails(stages, message) ==
  /\ trace' = trace \o stages \o <<"Failed">>
  /\ failure' = message
  /\ pc' = "flow_failed"
  /\ UNCHANGED <<processedDoc, rebuild, output, savingsBytes>>

\* loadPDF: validatePDF, then PDFDocument.load of the file's bytes
FlowLoad ==
  /\ pc = "flow_idle"
  /\ IF ~ValidatePDF(file)
     THEN Fails(<<>>, "Failed to load PDF: Invalid PDF file")
     ELSE IF ~file.parses
     THEN Fails(<<>>, "Failed to load PDF: parse error")
     ELSE /\ processedDoc' = [pages |-> Indices(0, file.pageCount), graph |-> "parsed"]
          /\ trace' = Append(trace, "Loaded")
          /\ pc' = "flow_loaded"
          /\ UNCHANGED <<rebuild, output, failure, savingsBytes>>
  /\ UNCHANGED <<lastPct, engine, file, options>>
  /\ UNCHANGED <<splitVars, fixedVars, compressVars, removeVars, targetVars, workerVars,
                 walkVars, lateVars>>

\* processPDF, options.removeImages: removeImages() up to the end of its
\* page loop; whatever it throws is rethrown
LegacyRemove ==
  /\ pc = "flow_loaded" /\ engine = "legacy"
  /\ options.removeImages
  /\ \E throws \in BOOLEAN :
       IF throws
       THEN Fails(<<"Removing">>, "removeImages error")
       ELSE /\ trace' = Append(trace, "Removing")
            /\ pc' = "flow_rebuild"
            /\ UNCHANGED <<processedDoc, rebuild, output, failure, savingsBytes>>
  /\ UNCHANGED <<lastPct, engine, file, options>>
  /\ UNCHANGED <<splitVars, fixedVars, compressVars, removeVars, targetVars, workerVars,
                 walkVars, lateVars>>

\* processPDF, options.imageCompression: compressImagesInMainThread, which
\* returns pdfDoc whatever happens inside it.  The branch is reached only
\* when the removal branch above it did not return.
LegacyCompressMut ==
  /\ pc = "flow_loaded" /\ engine = "legacy"
  /\ options.imageCompression
  /\ trace' = Append(trace, "Compressing")
  /\ pc' = "flow_rebuild"
  /\ UNCHANGED <<lastPct, engine, file, options, processedDoc, rebuild, output, failure,
                 savingsBytes>>
  /\ UNCHANGED <<splitVars, fixedVars, compressVars, removeVars, targetVars, workerVars,
                 walkVars, lateVars>>
LegacyCompress ==
  /\ pc = "flow_loaded" /\ engine = "legacy"
  /\ ~options.removeImages /\ options.imageCompression
  /\ trace' = Append(trace, "Compressing")
  /\ pc' = "flow_rebuild"
  /\ UNCHANGED <<lastPct, engine, file, options, processedDoc, rebuild, output, failure,
                 savingsBytes>>
  /\ UNCHANGED <<splitVars, fixedVars, compressVars, removeVars, targetVars, workerVars,
                 walkVars, lateVars>>

\* processPDF, neither option: processedFile is the input file itself
LegacyPassThrough ==
  /\ pc = "flow_loaded" /\ engine = "legacy"
  /\ ~options.removeImages /\ ~options.imageCompression
  /\ output' = <<[pages |-> processedDoc.pages, graph |-> "file"]>>
  /\ savingsBytes' = SavingsBytes(file.size, file.size)
  /\ trace' = Append(trace, "Done")
  /\ pc' = "flow_done"
  /\ UNCHANGED <<lastPct, engine, file, options, processedDoc, rebuild, failure>>
  /\ UNCHANGED <<splitVars, fixedVars, compressVars, removeVars, targetVars, workerVars,
                 walkVars, lateVars>>

\* the rebuild block of processPDF and of removeImages: a failure of create
\* or copyPages is caught and targetDoc stays the document it was
LegacyRebuild ==
  /\ pc = "flow_rebuild"
  /\ \E ok \in BOOLEAN :
       /\ processedDoc' = IF ok THEN Rebuilt(processedDoc) ELSE processedDoc
       /\ rebuild' = IF ok THEN "ok" ELSE "failed"
  /\ trace' = Append(trace, "Rebuilding")
  /\ pc' = "flow_save"
  /\ UNCHANGED <<lastPct, engine, file, options, output, failure, savingsBytes>>
  /\ UNCHANGED <<splitVars, fixedVars, compressVars, removeVars, targetVars, workerVars,
                 walkVars, lateVars>>

\* targetDoc.save({useObjectStreams: true, addDefaultPage: false, ...}) and
\* the return of the result
LegacySave ==
  /\ pc = "flow_save"
  /\ \E ok \in BOOLEAN :
       IF ok
       THEN /\ output' = <<processedDoc>>
            /\ \E len \in SavedLengths : savingsBytes' = SavingsBytes(file.size, len)
            /\ trace' = trace \o <<"Saving", "Done">>
            /\ pc' = "flow_done"
            /\ UNCHANGED <<processedDoc, rebuild, failure>>
       ELSE Fails(<<"Saving">>, "save error")
  /\ UNCHANGED <<lastPct, engine, file, options>>
  /\ UNCHANGED <<splitVars, fixedVars, compressVars, removeVars, targetVars, workerVars,
                 walkVars, lateVars>>

\* positions of the enhanced engine at which the next enabled stage starts
ReadyToCompress ==
  /\ engine = "enhanced"
  /\ pc = "flow_removed" \/ (pc = "flow_loaded" /\ ~options.removeImages)

ReadyToSplit ==
  /\ engine = "enhanced"
  /\ pc = "flow_compressed" \/ (ReadyToCompress /\ ~options.imageCompression)

ReadyToSave ==
  /\ engine = "enhanced"
  /\ pc = "flow_ranged" \/ (ReadyToSplit /\ ~options.splitPDF)

\* options.removeImages: the two removal calls, either of which may throw
EnhancedRemove ==
  /\ pc = "flow_loaded" /\ engine = "enhanced"
  /\ options.removeImages
  /\ \E throws \in BOOLEAN :
       IF throws
       THEN Fails(<<"Removing">>, "removal error")
       ELSE /\ trace' = Append(trace, "Removing")
            /\ pc' = "flow_removed"
            /\ UNCHANGED <<processedDoc, rebuild, output, failure, savingsBytes>>
  /\ UNCHANGED <<lastPct, engine, file, options>>
  /\ UNCHANGED <<splitVars, fixedVars, compressVars, removeVars, targetVars, workerVars,
                 walkVars, lateVars>>

\* options.imageCompression: compressImagesInMainThread
EnhancedCompress ==
  /\ ReadyToCompress
  /\ options.imageCompression
  /\ trace' = Append(trace, "Compressing")
  /\ pc' = "flow_compressed"
  /\ UNCHANGED <<lastPct, engine, file, options, processedDoc, rebuild, output, failure,
                 savingsBytes>>
  /\ UNCHANGED <<splitVars, fixedVars, compressVars, removeVars, targetVars, workerVars,
                 walkVars, lateVars>>

\* splitMethod 'pages' with a start-end range: splitByPages, whose result
\* becomes processedDoc and goes on to optimizePDF and save
EnhancedSplitRange ==
  /\ ReadyToSplit
  /\ options.splitPDF /\ options.splitMethod = "pages"
  /\ options.pageRange.kind = "range"
  /\ LET a == options.pageRange.a
         b == options.pageRange.b
     IN  IF InvalidRange(a, b, Len(processedDoc.pages))
         THEN Fails(<<"Splitting">>, "Failed to split PDF by pages: Invalid page range")
         ELSE \E throws \in BOOLEAN :
                IF throws
                THEN Fails(<<"Splitting">>, "Failed to split PDF by pages: copy error")
                ELSE /\ processedDoc' =
                          [pages |-> CopyPages(processedDoc, Indices(a - 1, b)),
                           graph |-> "split"]
                     /\ trace' = Append(trace, "Splitting")
                     /\ pc' = "flow_ranged"
                     /\ UNCHANGED <<rebuild, output, failure, savingsBytes>>
  /\ UNCHANGED <<lastPct, engine, file, options>>
  /\ UNCHANGED <<splitVars, fixedVars, compressVars, removeVars, targetVars, workerVars,
                 walkVars, lateVars>>

\* splitMethod 'pages' with a number: splitByPagesFixed, which returns the
\* parts built before a failing copy, then a save of every part
EnhancedSplitFixed ==
  /\ ReadyToSplit
  /\ options.splitPDF /\ options.splitMethod = "pages"
  /\ options.pageRange.kind = "number"
  /\ LET n == IF options.pageRange.a # 0 THEN options.pageRange.a ELSE DefaultPagesPerChunk
         all == FixedParts(1, Max(1, n), Len(processedDoc.pages))
     IN  \E built \in 0..Len(all), saves \in BOOLEAN :
           IF saves
           THEN /\ output' = [i \in 1..built |->
                               [pages |-> CopyPages(processedDoc, all[i]), graph |-> "part"]]
                /\ \E len \in SavedLengths : savingsBytes' = SavingsBytes(file.size, len)
                /\ trace' = trace \o <<"Splitting", "Saving", "Done">>
                /\ pc' = "flow_done"
                /\ UNCHANGED <<processedDoc, rebuild, failure>>
           ELSE /\ built > 0
                /\ Fails(<<"Splitting", "Saving">>, "save error")
  /\ UNCHANGED <<lastPct, engine, file, options>>
  /\ UNCHANGED <<splitVars, fixedVars, compressVars, removeVars, targetVars, workerVars,
                 walkVars, lateVars>>

\* splitMethod 'size': splitBySize, which throws or returns chunks that
\* cover the pages in order, then a save of every chunk
EnhancedSplitSize ==
  /\ ReadyToSplit
  /\ options.splitPDF /\ options.splitMethod = "size"
  /\ LET P == Len(processedDoc.pages)
     IN  \E k \in 0..P, saves \in BOOLEAN :
           IF k = 0
           THEN Fails(<<"Splitting">>, "splitBySize error")
           ELSE IF saves
           THEN /\ output' = [i \in 1..Len(FixedParts(1, k, P)) |->
                               [pages |-> CopyPages(processedDoc, FixedParts(1, k, P)[i]),
                                graph |-> "part"]]
                /\ \E len \in SavedLengths : savingsBytes' = SavingsBytes(file.size, len)
                /\ trace' = trace \o <<"Splitting", "Saving", "Done">>
                /\ pc' = "flow_done"
                /\ UNCHANGED <<processedDoc, rebuild, failure>>
           ELSE Fails(<<"Splitting", "Saving">>, "save error")
  /\ UNCHANGED <<lastPct, engine, file, options>>
  /\ UNCHANGED <<splitVars, fixedVars, compressVars, removeVars, targetVars, workerVars,
                 walkVars, lateVars>>

\* optimizePDF (which returns its argument), processedDoc.save() and the
\* return of the single processed file
EnhancedSave ==
  /\ ReadyToSave
  /\ \E ok \in BOOLEAN :
       IF ok
       THEN /\ output' = <<processedDoc>>
            /\ \E len \in SavedLengths : savingsBytes' = SavingsBytes(file.size, len)
            /\ trace' = trace \o <<"Saving", "Done">>
            /\ pc' = "flow_done"
            /\ UNCHANGED <<processedDoc, rebuild, failure>>
       ELSE Fails(<<"Saving">>, "save error")
  /\ UNCHANGED <<lastPct, engine, file, options>>
  /\ UNCHANGED <<splitVars, fixedVars, compressVars, removeVars, targetVars, workerVars,
                 walkVars, lateVars>>

NextFlow ==
  \/ FlowLoad \/ LegacyRemove \/ LegacyCompress \/ LegacyPassThrough
  \/ LegacyRebuild \/ LegacySave
  \/ EnhancedRemove \/ EnhancedCompress \/ EnhancedSplitRange
  \/ EnhancedSplitFixed \/ EnhancedSplitSize \/ EnhancedSave

SpecFlow == InitFlow /\ [][NextFlow]_vars

\* an input the engines are to reject: not a PDF by type and name, an empty
\* file, or a document of zero pages
Unrecoverable ==
  \/ ~(file.type = "application/pdf" \/ EndsWithPdf(file.name))
  \/ file.size = 0
  \/ file.parses /\ file.pageCount = 0

\* C12: for an unrecoverable input the invocation never completes and never
\* produces an output file, in either engine and under every combination of
\* options; once it has ended it has failed with a message.
C12_UnrecoverableFails ==
  (pc # "flow_idle" /\ Unrecoverable) =>
    /\ pc # "flow_done"
    /\ output = <<>>
    /\ pc = "flow_failed" => failure # ""

\* C19: an invocation that ran the rebuild block does not fail because of
\* it.  When the rebuild failed, the un-rebuilt document (the parsed graph,
\* mutated in place) is the one serialized and an output file is still
\* produced; when it succeeded, the rebuilt document is the one serialized,
\* with the pages of the source in the same number and order.
C19_RebuildFallback ==
  /\ pc = "flow_save" => failure = "" /\ rebuild \in {"ok", "failed"}
  /\ (pc = "flow_done" /\ rebuild # "none") =>
       /\ Len(output) = 1
       /\ output[1].pages = Indices(0, file.pageCount)
       /\ rebuild = "failed" => output[1].graph = "parsed"
       /\ rebuild = "ok" => output[1].graph = "rebuilt"

\* a completed two-page invocation whose rebuild failed after image removal
C19_Witness ==
  /\ pc = "flow_done" /\ rebuild = "failed"
  /\ options.removeImages /\ file.pageCount = 2
  /\ output = <<[pages |-> <<0, 1>>, graph |-> "parsed"]>>
  /\ trace = <<"Idle", "Loaded", "Removing", "Rebuilding", "Saving", "Done">>

\* the stages entered so far
Entered == {trace[i] : i \in 1..Len(trace)}

\* C21: in the legacy flow removal and compression never both run in one
\* invocation: with removeImages set compression is not invoked, whatever
\* imageCompression is, and the result returned is the one of the removal;
\* compression runs only with removeImages not set.
C21_RemovalExcludesCompression ==
  engine = "legacy" =>
    /\ ~({"Removing", "Compressing"} \subseteq Entered)
    /\ options.removeImages => "Compressing" \notin Entered
    /\ (options.removeImages /\ pc = "flow_done") => "Removing" \in Entered

\* a completed legacy invocation with both options set: only removal ran
C21_Witness ==
  /\ engine = "legacy" /\ pc = "flow_done"
  /\ options.removeImages /\ options.imageCompression
  /\ "Removing" \in Entered /\ Len(output) = 1

\* C29: in the legacy flow an invocation with splitPDF set and neither
\* removeImages nor imageCompression set, once its file has loaded, performs
\* no split for either split method: it completes with the original input
\* file as processedFile and savingsBytes 0.
C29_LegacySplitIsPassThrough ==
  (/\ engine = "legacy" /\ options.splitPDF
   /\ ~options.removeImages /\ ~options.imageCompression
   /\ "Loaded" \in Entered /\ pc # "flow_loaded") =>
    /\ pc = "flow_done" /\ failure = ""
    /\ "Splitting" \notin Entered
    /\ output = <<[pages |-> Indices(0, file.pageCount), graph |-> "file"]>>
    /\ savingsBytes = 0

\* a completed legacy split-by-size invocation on a two-page file
C29_Witness ==
  /\ engine = "legacy" /\ pc = "flow_done"
  /\ options.splitPDF /\ options.splitMethod = "size"
  /\ ~options.removeImages /\ ~options.imageCompression
  /\ file.pageCount = 2 /\ Len(output) = 1 /\ savingsBytes = 0

\* the stages that may follow a stage on the path
\* Idle, Loaded, (Removing | Compressing)?, (Splitting)?, Rebuilding, Saving,
\* Done, with remove, compress, split in this order in the enhanced flow
After(stage) ==
  CASE stage = "Idle" -> {"Loaded"}
    [] stage = "Loaded" -> {"Removing", "Compressing", "Splitting", "Rebuilding"}
    [] stage = "Removing" -> {"Compressing", "Splitting", "Rebuilding"}
    [] stage = "Compressing" -> {"Splitting", "Rebuilding"}
    [] stage = "Splitting" -> {"Rebuilding"}
    [] stage = "Rebuilding" -> {"Saving"}
    [] stage = "Saving" -> {"Done"}
    [] OTHER -> {}

\* C20: the stage trace of an invocation starts at Idle and every next stage
\* is one the path allows after the stage before it, or Failed after a stage
\* that is neither Done nor Failed; so each stage runs at most once, Saving
\* directly follows Rebuilding, and nothing follows Failed.  A failed
\* invocation returns no result.
C20_StagePath ==
  /\ trace[1] = "Idle"
  /\ \A i \in 1..(Len(trace) - 1) :
       \/ trace[i + 1] \in After(trace[i])
       \/ trace[i + 1] = "Failed" /\ trace[i] \notin {"Done", "Failed"}
  /\ pc = "flow_failed" => output = <<>>

----------------------------------------------------------------------------
(* compressImages and splitByPages: the worker path and the same-context   *)
(* path they fall back to.  pageSizes holds the pages of pdfDoc.  A        *)
(* progress report records who made it, the page it is about (0: none) and *)
(* the integer part of its percentage.                                     *)

(* Bounds *)
MaxWorkerPages == 3

(* Program constants *)
WorkerSavingPct == 90   \* reportProgress(taskId, 90, 'Saving compressed PDF')

\* the PROGRESS_UPDATE messages of compressImagesInWorker for n pages
WorkerReports(n) ==
  <<[by |-> "worker", page |-> 0, percentage |-> 0]>>
  \o [i \in 1..n |-> [by |-> "worker", page |-> i, percentage |-> (i * 100) \div n]]
  \o <<[by |-> "worker", page |-> 0, percentage |-> WorkerSavingPct]>>

\* the progressCallback calls of the same-context loop for n pages
MainReports(n) ==
  [i \in 1..n |-> [by |-> "main", page |-> i, percentage |-> RoundDiv(i * 100, n)]]

\* for (let i = startPage; i <= endPage; i++) copyPages(pdfDoc, [i - 1])
RECURSIVE CopyLoop(_, _)
CopyLoop(i, last) == IF i > last THEN <<>> ELSE <<i - 1>> \o CopyLoop(i + 1, last)

InitWorker ==
  /\ pc = "fc_start"
  /\ lastPct = -1
  /\ op \in {"compress", "split"}
  /\ isWorkerSupported \in BOOLEAN
  /\ pageSizes \in UNION {[1..n -> {[own |-> 3, shared |-> FALSE]}] : n \in 0..MaxWorkerPages}
  /\ startPage \in IF op = "split" THEN 0..(MaxWorkerPages + 1) ELSE {0}
  /\ endPage \in IF op = "split" THEN 0..(MaxWorkerPages + 1) ELSE {0}
  /\ reports = <<>> /\ newPdfDoc = NoGraph /\ answer = NoGraph /\ thrown = ""
  /\ IdleSplit /\ IdleFixed /\ IdleCompress /\ IdleRemove /\ IdleTarget /\ IdleFlow
  /\ IdleWalk /\ IdleLate

\* if (this.isWorkerSupported) { try { await this.initWorker(); ... } }:
\* without worker support, or when initWorker throws, the same-context code
\* runs next
WorkerChoice ==
  /\ pc = "fc_start"
  /\ IF isWorkerSupported
     THEN \E ready \in BOOLEAN : pc' = IF ready THEN "fc_worker" ELSE "fc_main"
     ELSE pc' = "fc_main"
  /\ UNCHANGED <<lastPct, workerVars>>
  /\ UNCHANGED <<splitVars, fixedVars, compressVars, removeVars, targetVars, flowVars,
                 walkVars, lateVars>>

\* compressImagesWithWorker: pdfDoc.save(), then the task; its progress
\* messages are handed to progressCallback as they arrive; the call ends
\* with PROCESSING_COMPLETED after all of them or is rejected after some
WorkerCompress ==
  /\ pc = "fc_worker" /\ op = "compress"
  /\ LET all == WorkerReports(Len(pageSizes))
     IN  \E k \in 0..Len(all), completed \in BOOLEAN :
           /\ completed => k = Len(all)
           /\ reports' = reports \o SubSeq(all, 1, k)
           /\ lastPct' = IF k > 0 THEN all[k].percentage ELSE lastPct
           /\ IF completed
              THEN /\ answer' = [pages |-> Indices(0, Len(pageSizes)), graph |-> "processedPdf"]
                   /\ pc' = "fc_done"
              ELSE /\ pc' = "fc_main"
                   /\ UNCHANGED answer
  /\ UNCHANGED <<op, isWorkerSupported, startPage, endPage, newPdfDoc, thrown>>
  /\ UNCHANGED <<splitVars, fixedVars, compressVars, removeVars, targetVars, flowVars,
                 walkVars, lateVars>>

\* compressImages, same-context loop: one progressCallback call per page,
\* then return pdfDoc
MainCompress ==
  /\ pc = "fc_main" /\ op = "compress"
  /\ LET n == Len(pageSizes)
     IN  /\ reports' = reports \o MainReports(n)
         /\ lastPct' = IF n > 0 THEN MainReports(n)[n].percentage ELSE lastPct
         /\ answer' = [pages |-> Indices(0, n), graph |-> "pdfDoc"]
  /\ pc' = "fc_done"
  /\ UNCHANGED <<op, isWorkerSupported, startPage, endPage, newPdfDoc, thrown>>
  /\ UNCHANGED <<splitVars, fixedVars, compressVars, removeVars, targetVars, flowVars,
                 walkVars, lateVars>>

\* splitByPagesWithWorker and splitPDFInWorker: the range test throws before
\* the new document is created; a task that ends in an error is rejected
WorkerSplit ==
  /\ pc = "fc_worker" /\ op = "split"
  /\ IF InvalidRange(startPage, endPage, Len(pageSizes))
     THEN /\ pc' = "fc_main"
          /\ UNCHANGED <<newPdfDoc, answer>>
     ELSE \E completed \in BOOLEAN :
            /\ newPdfDoc' = [pages |-> CopyLoop(startPage, endPage), graph |-> "worker"]
            /\ IF completed
               THEN /\ answer' = [pages |-> CopyLoop(startPage, endPage),
                                  graph |-> "processedPdf"]
                    /\ pc' = "fc_done"
               ELSE /\ pc' = "fc_main"
                    /\ UNCHANGED answer
  /\ UNCHANGED <<lastPct, op, isWorkerSupported, startPage, endPage, reports, thrown>>
  /\ UNCHANGED <<splitVars, fixedVars, compressVars, removeVars, targetVars, flowVars,
                 walkVars, lateVars>>

\* splitByPages, same-context code: range test, create, copy loop, return
MainSplit ==
  /\ pc = "fc_main" /\ op = "split"
  /\ IF InvalidRange(startPage, endPage, Len(pageSizes))
     THEN /\ thrown' = "Failed to split PDF by pages: Invalid page range"
          /\ pc' = "fc_failed"
          /\ UNCHANGED <<newPdfDoc, answer>>
     ELSE /\ newPdfDoc' = [pages |-> CopyLoop(startPage, endPage), graph |-> "newPdfDoc"]
          /\ answer' = [pages |-> CopyLoop(startPage, endPage), graph |-> "newPdfDoc"]
          /\ pc' = "fc_done"
          /\ UNCHANGED thrown
  /\ UNCHANGED <<lastPct, op, isWorkerSupported, startPage, endPage, reports>>
  /\ UNCHANGED <<splitVars, fixedVars, compressVars, removeVars, targetVars, flowVars,
                 walkVars, lateVars>>

NextWorker == WorkerChoice \/ WorkerCompress \/ MainCompress \/ WorkerSplit \/ MainSplit

SpecWorker == InitWorker /\ [][NextWorker]_vars

\* C13: when compressImages completes on the same-context path (no worker
\* support, a failed initWorker, or a worker task that ended in an error)
\* it returns pdfDoc and progressCallback has been called exactly once per
\* page; a compressImages call never rejects because of the worker.
C13_FallbackReportsOncePerPage ==
  /\ op = "compress" => pc # "fc_failed"
  /\ (pc = "fc_done" /\ op = "compress" /\ answer.graph = "pdfDoc") =>
       /\ Len(reports) = Len(pageSizes)
       /\ \A i \in 1..Len(reports) : reports[i].page = i

----------------------------------------------------------------------------
(* compressImagesInMainThread with nested Form XObjects.  graph.pages[i]   *)
(* is the XObject dictionary of page i and graph.forms[f] that of the      *)
(* resources of Form f, each as the sequence of its entries in key order.  *)
(* An entry is an Image (ok: whether recompressJpeg can decode, re-encode  *)
(* to fewer bytes and embed it), a Form (to: the Form it refers to) or Bad *)
(* (an entry whose lookup or Subtype read throws, or a Form whose own      *)
(* dictionary cannot be read: all end in the catch of that entry).  Page   *)
(* dictionaries themselves are readable.  A Form may refer to itself or to *)
(* a Form that refers back.  The modelled call stack holds at most         *)
(* MaxDepth compressInDict calls; the call that would exceed it throws     *)
(* into the try of the entry that made it, as a RangeError does in a chain *)
(* of synchronous calls.  Neither function keeps a set of visited Forms.   *)

(* Bounds *)
MaxWalkPages == 2
MaxDepth == 3

XEntry(kind, to, ok) ==
  [kind |-> kind, to |-> to, ok |-> ok, ref |-> "original", visited |-> FALSE]

(* Inputs *)
PageDicts ==
  {<<>>,
   <<XEntry("Image", "", TRUE)>>,
   <<XEntry("Image", "", FALSE), XEntry("Image", "", TRUE)>>,
   <<XEntry("Bad", "", FALSE), XEntry("Image", "", TRUE)>>,
   <<XEntry("Form", "A", FALSE), XEntry("Image", "", TRUE)>>,
   <<XEntry("Form", "A", FALSE), XEntry("Form", "B", FALSE)>>}

FormDicts ==
  {[A |-> <<XEntry("Image", "", TRUE)>>, B |-> <<XEntry("Image", "", FALSE)>>],
   [A |-> <<XEntry("Form", "B", FALSE), XEntry("Image", "", FALSE)>>,
    B |-> <<XEntry("Bad", "", FALSE), XEntry("Image", "", TRUE)>>],
   [A |-> <<XEntry("Image", "", TRUE), XEntry("Form", "A", FALSE)>>, B |-> <<>>],
   [A |-> <<XEntry("Form", "B", FALSE)>>,
    B |-> <<XEntry("Image", "", TRUE), XEntry("Form", "A", FALSE)>>]}

\* countImagesInDict of estimateTotalImagesDeep, from entry k of a dictionary
RECURSIVE CountImagesInDict(_, _, _)
CountImagesInDict(dict, k, depth) ==
  IF k > Len(dict) THEN 0
  ELSE (CASE dict[k].kind = "Image" -> 1
          [] dict[k].kind = "Form" /\ depth < MaxDepth ->
               CountImagesInDict(graph.forms[dict[k].to], 1, depth + 1)
          [] OTHER -> 0)
       + CountImagesInDict(dict, k + 1, depth)

\* the XObject dictionary a compressInDict call walks
FrameDict(fr) == IF fr.form = "" THEN graph.pages[pageI + 1] ELSE graph.forms[fr.form]

\* recompressJpeg on an Image entry: xobjDict.set(name, embedded.ref) only
\* at the end of a successful run
VisitImageMut(e) == [e EXCEPT !.visited = TRUE, !.ref = "embedded"]
VisitImage(e) == [e EXCEPT !.visited = TRUE, !.ref = IF e.ok THEN "embedded" ELSE e.ref]

InitWalk ==
  /\ pc = "walk_start"
  /\ lastPct = -1
  /\ graph \in [pages : UNION {[1..n -> PageDicts] : n \in 1..MaxWalkPages},
                forms : FormDicts]
  /\ stack = <<>>
  /\ visits = [A |-> 0, B |-> 0]
  /\ xobjects = <<>> /\ totalEstimated = 0 /\ processedImages = 0
  /\ replacedImages = 0 /\ pageI = 0 /\ keyK = 0
  /\ pageSizes = <<>>
  /\ IdleSplit /\ IdleFixed /\ IdleRemove /\ IdleTarget /\ IdleFlow /\ IdleWorker /\ IdleLate

\* totalEstimated and the counters
WalkStart ==
  /\ pc = "walk_start"
  /\ totalEstimated' =
       SumRange([i \in 1..Len(graph.pages) |-> CountImagesInDict(graph.pages[i], 1, 1)],
                1, Len(graph.pages))
  /\ processedImages' = 0 /\ replacedImages' = 0 /\ pageI' = 0
  /\ pc' = "walk"
  /\ UNCHANGED <<lastPct, xobjects, keyK, walkVars, lateVars>>
  /\ UNCHANGED <<splitVars, fixedVars, removeVars, targetVars, flowVars, workerVars,
                 lateVars>>

\* for (let i = 0; i < pageCount; i++) await compressInDict(pageDict, 0)
WalkPage ==
  /\ pc = "walk" /\ stack = <<>>
  /\ pageI < Len(graph.pages)
  /\ stack' = <<[form |-> "", k |-> 1]>>
  /\ visits' = [A |-> 0, B |-> 0]
  /\ UNCHANGED <<pc, lastPct, graph, compressVars>>
  /\ UNCHANGED <<splitVars, fixedVars, removeVars, targetVars, flowVars, workerVars,
                 lateVars>>

\* one pass of for (const name of keys) { try { ... } catch { } } in the
\* innermost running call
WalkEntry ==
  /\ pc = "walk" /\ stack # <<>>
  /\ LET d == Len(stack)
         top == stack[d]
         e == IF top.k <= Len(FrameDict(top)) THEN FrameDict(top)[top.k]
              ELSE XEntry("Bad", "", FALSE)
         moved == [stack EXCEPT ![d].k = top.k + 1]
     IN  /\ top.k <= Len(FrameDict(top))
         /\ CASE e.kind = "Image" ->
                   /\ graph' = IF top.form = ""
                               THEN [graph EXCEPT !.pages[pageI + 1][top.k] = VisitImage(e)]
                               ELSE [graph EXCEPT !.forms[top.form][top.k] = VisitImage(e)]
                   /\ replacedImages' = replacedImages + (IF e.ok THEN 1 ELSE 0)
                   /\ processedImages' = processedImages + 1
                   /\ lastPct' = ImagePct(processedImages + 1, totalEstimated)
                   /\ stack' = moved
                   /\ UNCHANGED visits
              [] e.kind = "Form" /\ d < MaxDepth ->
                   /\ stack' = Append(moved, [form |-> e.to, k |-> 1])
                   /\ visits' = [visits EXCEPT ![e.to] = @ + 1]
                   /\ UNCHANGED <<graph, replacedImages, processedImages, lastPct>>
              [] OTHER ->
                   /\ stack' = moved
                   /\ UNCHANGED <<graph, visits, replacedImages, processedImages, lastPct>>
  /\ UNCHANGED <<pc, xobjects, totalEstimated, pageI, keyK>>
  /\ UNCHANGED <<splitVars, fixedVars, removeVars, targetVars, flowVars, workerVars,
                 lateVars>>

\* the innermost call returns; at page level the per-page progress report
\* follows and the page loop moves on
WalkLeave ==
  /\ pc = "walk" /\ stack # <<>>
  /\ stack[Len(stack)].k > Len(FrameDict(stack[Len(stack)]))
  /\ stack' = SubSeq(stack, 1, Len(stack) - 1)
  /\ IF Len(stack) = 1
     THEN /\ lastPct' = PagePct(pageI, Len(graph.pages), totalEstimated)
          /\ pageI' = pageI + 1
     ELSE UNCHANGED <<lastPct, pageI>>
  /\ UNCHANGED <<pc, graph, visits, xobjects, totalEstimated, processedImages,
                 replacedImages, keyK>>
  /\ UNCHANGED <<splitVars, fixedVars, removeVars, targetVars, flowVars, workerVars,
                 lateVars>>

\* return pdfDoc
WalkReturn ==
  /\ pc = "walk" /\ stack = <<>>
  /\ ~(pageI < Len(graph.pages))
  /\ pc' = "walk_done"
  /\ UNCHANGED <<lastPct, compressVars, walkVars, lateVars>>
  /\ UNCHANGED <<splitVars, fixedVars, removeVars, targetVars, flowVars, workerVars,
                 lateVars>>

NextWalk == WalkStart \/ WalkPage \/ WalkEntry \/ WalkLeave \/ WalkReturn

SpecWalk == InitWalk /\ [][NextWalk]_vars

\* C15: within the walk of one page no Form XObject is entered more than
\* once, also when a Form's resources refer to the Form itself or to one of
\* its ancestors.
C15_FormVisitedOnce == \A f \in {"A", "B"} : visits[f] <= 1

\* the Forms a dictionary refers to, and the Forms the pages reach
FormsOf(dict) == {dict[k].to : k \in {j \in 1..Len(dict) : dict[j].kind = "Form"}}
PageForms == UNION {FormsOf(graph.pages[i]) : i \in 1..Len(graph.pages)}
ReachedForms == PageForms \cup UNION {FormsOf(graph.forms[f]) : f \in PageForms}

\* every dictionary the walk has to cover, and its Image entries
WalkDicts == {graph.pages[i] : i \in 1..Len(graph.pages)} \cup
             {graph.forms[f] : f \in ReachedForms}
ImagesOf(dict) == {dict[k] : k \in {j \in 1..Len(dict) : dict[j].kind = "Image"}}

\* C18: compressImagesInMainThread never ends in a failure, and when it
\* returns every Image entry of every page and of every Form the pages
\* reach has been visited, whatever entries are malformed and whichever
\* images fail; an image whose recompression fails keeps its original
\* reference and one whose recompression succeeds has the embedded one.
C18_PerObjectFailureContained ==
  /\ pc \in {"walk_start", "walk", "walk_done"}
  /\ \A dict \in WalkDicts : \A e \in ImagesOf(dict) :
       /\ ~e.ok => e.ref = "original"
       /\ pc = "walk_done" => e.visited /\ (e.ok => e.ref = "embedded")

\* a returned walk over two pages: a malformed entry and a failing image
\* were passed, the failing image kept its reference, images after them and
\* on the next page were replaced
C18_Witness ==
  /\ pc = "walk_done"
  /\ Len(graph.pages) = 2
  /\ Len(graph.pages[1]) = 2 /\ Len(graph.pages[2]) = 2
  /\ graph.pages[1][1].kind = "Bad" /\ graph.pages[1][2].ref = "embedded"
  /\ graph.pages[2][1].kind = "Image" /\ ~graph.pages[2][1].ok
  /\ graph.pages[2][1].visited /\ graph.pages[2][1].ref = "original"
  /\ graph.pages[2][2].ref = "embedded"
  /\ replacedImages = 2 /\ processedImages = 3

----------------------------------------------------------------------------
(* The worker's task queue: queueTask, processNextTask, cancelTask,        *)
(* handleError and resetProcessingState.  A task is named by the order in  *)
(* which queueTask accepted it, which is also the order of its timestamp.  *)
(* The worker handles one event at a time: a message, a timer callback, or *)
(* the continuation of processNextTask after its await has settled.  A     *)
(* message that is waiting and a timer that is due may be handled in       *)
(* either order.                                                           *)

(* Bounds *)
MaxTasks == 3

\* taskQueue.sort(...): by priority, higher first, then by timestamp
RECURSIVE Sorted(_)
Sorted(queue) ==
  IF queue = <<>> THEN <<>>
  ELSE LET first == CHOOSE t \in {queue[i] : i \in 1..Len(queue)} :
                      \A i \in 1..Len(queue) :
                        \/ queue[i].priority < t.priority
                        \/ queue[i].priority = t.priority /\ t.id <= queue[i].id
       IN  <<first>> \o Sorted(SelectSeq(queue, LAMBDA t : t # first))

\* processNextTask up to its await, on the queue given: nothing on an empty
\* queue; otherwise sort, shift, set currentTaskId and isProcessing, post
\* PROCESSING_STARTED and call the processing function
ProcessNextTaskMut(queue) ==
  IF queue = <<>>
  THEN /\ taskQueue' = queue
       /\ UNCHANGED <<isProcessing, currentTaskId, running, started>>
  ELSE /\ taskQueue' = Sorted(queue)
       /\ currentTaskId' = Head(Sorted(queue)).id
       /\ isProcessing' = TRUE
       /\ started' = [started EXCEPT ![Head(Sorted(queue)).id] = Min(2, @ + 1)]
       /\ running' = running \cup {Head(Sorted(queue)).id}
ProcessNextTask(queue) ==
  IF queue = <<>>
  THEN /\ taskQueue' = queue
       /\ UNCHANGED <<isProcessing, currentTaskId, running, started>>
  ELSE /\ taskQueue' = Tail(Sorted(queue))
       /\ currentTaskId' = Head(Sorted(queue)).id
       /\ isProcessing' = TRUE
       /\ started' = [started EXCEPT ![Head(Sorted(queue)).id] = @ + 1]
       /\ running' = running \cup {Head(Sorted(queue)).id}

InitQueue ==
  /\ pc = "worker_ready"
  /\ lastPct = -1
  /\ isProcessing = FALSE /\ currentTaskId = 0 /\ taskQueue = <<>>
  /\ running = {} /\ timers = 0
  /\ started = [i \in 1..MaxTasks |-> 0] /\ terminals = [i \in 1..MaxTasks |-> 0]
  /\ cancelled = {} /\ accepted = 0
  /\ calls = <<>> /\ parsed = <<>> /\ pdfDocument = 0
  /\ processingOptions = <<>> /\ clicks = <<>>
  /\ pageSizes = <<>>
  /\ IdleSplit /\ IdleFixed /\ IdleCompress /\ IdleRemove
  /\ IdleTarget /\ IdleFlow /\ IdleWorker /\ IdleWalk

\* onmessage with a PROCESS_* message: queueTask
QueueTask ==
  /\ pc = "worker_ready"
  /\ accepted < MaxTasks
  /\ \E priority \in {0, 1} :
       LET task == [id |-> accepted + 1, priority |-> priority]
           queue == IF priority > 0 THEN <<task>> \o taskQueue
                    ELSE Append(taskQueue, task)
       IN  IF ~isProcessing
           THEN ProcessNextTask(queue)
           ELSE /\ taskQueue' = queue
                /\ UNCHANGED <<isProcessing, currentTaskId, running, started>>
  /\ accepted' = accepted + 1
  /\ UNCHANGED <<pc, timers, terminals, cancelled, earlierVars, raceVars, uiVars>>

\* the callback of setTimeout(processNextTask, 0)
TimerFires ==
  /\ pc = "worker_ready"
  /\ timers > 0
  /\ timers' = timers - 1
  /\ ProcessNextTask(taskQueue)
  /\ UNCHANGED <<pc, terminals, cancelled, accepted, earlierVars, raceVars, uiVars>>

\* the processing function of a running task settles: PROCESSING_COMPLETED
\* or, through handleError, ERROR is posted with the task's id; finally
\* resets the processing state and sets the timer
TaskSettles ==
  /\ pc = "worker_ready"
  /\ \E id \in running :
       /\ running' = running \ {id}
       /\ terminals' = [terminals EXCEPT ![id] = @ + 1]
  /\ isProcessing' = FALSE
  /\ currentTaskId' = 0
  /\ timers' = timers + 1
  /\ UNCHANGED <<pc, taskQueue, started, cancelled, accepted, earlierVars, raceVars, uiVars>>

\* onmessage with CANCEL_TASK: the current task is only reported cancelled,
\* a queued one is removed, any other id gives TASK_NOT_FOUND
CancelTask ==
  /\ pc = "worker_ready"
  /\ \E id \in 1..accepted :
       IF currentTaskId = id
       THEN /\ cancelled' = cancelled \cup {id}
            /\ UNCHANGED taskQueue
       ELSE /\ taskQueue' = SelectSeq(taskQueue, LAMBDA t : t.id # id)
            /\ cancelled' = IF \E i \in 1..Len(taskQueue) : taskQueue[i].id = id
                            THEN cancelled \cup {id} ELSE cancelled
  /\ UNCHANGED <<pc, isProcessing, currentTaskId, running, timers, started, terminals,
                 accepted, earlierVars, raceVars, uiVars>>

NextQueue == QueueTask \/ TimerFires \/ TaskSettles \/ CancelTask

\* messages, due timers and settled awaits are all handled in the end
SpecQueue == InitQueue /\ [][NextQueue]_vars /\ WF_vars(TimerFires) /\ WF_vars(TaskSettles)

\* C26: at most one task is being processed at any time, and isProcessing
\* and currentTaskId describe the task in flight: isProcessing holds exactly
\* when a task is running, and currentTaskId is then that task.
C26_OneTaskInFlight ==
  /\ Cardinality(running) <= 1
  /\ isProcessing <=> running # {}
  /\ running # {} => running = {currentTaskId}

\* the ids of the tasks waiting in the queue
Queued == {taskQueue[i].id : i \in 1..Len(taskQueue)}

\* C27: every task queueTask accepted is waiting in the queue, was started,
\* or was cancelled, and none is started twice or gets two terminal
\* messages; and every accepted task that is not cancelled in the end gets
\* its terminal message (PROCESSING_COMPLETED or ERROR), having been
\* started once.
C27_EveryTaskServedOnce ==
  /\ [](\A id \in 1..MaxTasks :
         /\ started[id] <= 1 /\ terminals[id] <= started[id]
         /\ id \in Queued => started[id] = 0
         /\ id <= accepted => (id \in Queued \/ started[id] = 1 \/ id \in cancelled)
         /\ id \in running <=> (started[id] = 1 /\ terminals[id] = 0))
  /\ \A id \in 1..MaxTasks :
       (id <= accepted) ~> ((started[id] = 1 /\ terminals[id] = 1) \/ id \in cancelled)

\* all three tasks were served, none cancelled, the queue is empty again
C27_Witness ==
  /\ accepted = MaxTasks /\ cancelled = {} /\ taskQueue = <<>> /\ running = {}
  /\ \A id \in 1..MaxTasks : started[id] = 1 /\ terminals[id] = 1

----------------------------------------------------------------------------
(* Overlapping invocations of the app's processPDF.  The handler has no    *)
(* guard on state.isProcessing, so a second click runs a second invocation *)
(* while the first is suspended at an await.  Each invocation parses the   *)
(* selected file once for app.state.pdfDocument, if that is still null, and *)
(* the engine parses it again into a local pdfDoc, which its passes mutate. *)
MaxCalls == 2

InitRace ==
  /\ pc = "app_ready"
  /\ lastPct = -1
  /\ calls = [i \in 1..MaxCalls |-> [at |-> "none", doc |-> 0, left |-> 0]]
  /\ parsed = <<>> /\ pdfDocument = 0
  /\ isProcessing = FALSE /\ currentTaskId = 0 /\ taskQueue = <<>>
  /\ running = {} /\ timers = 0 /\ started = <<>> /\ terminals = <<>>
  /\ cancelled = {} /\ accepted = 0
  /\ processingOptions = <<>> /\ clicks = <<>>
  /\ pageSizes = <<>>
  /\ IdleSplit /\ IdleFixed /\ IdleCompress /\ IdleRemove
  /\ IdleTarget /\ IdleFlow /\ IdleWorker /\ IdleWalk

\* processPDF is called with a file selected: it goes on to parse the file
\* when state.pdfDocument is null, and to the engine otherwise
StartCall ==
  /\ pc = "app_ready"
  /\ \E i \in 1..MaxCalls :
       /\ calls[i].at = "none"
       /\ calls' = [calls EXCEPT ![i].at =
                      IF pdfDocument = 0 THEN "app_load" ELSE "engine_load"]
  /\ UNCHANGED <<pc, parsed, pdfDocument, earlierVars, queueVars, uiVars>>

\* the await of pdfProcessor.loadPDF in processPDF settles: the graph goes
\* to state.pdfDocument, or the call ends in the catch
AppLoad ==
  /\ pc = "app_ready"
  /\ \E i \in 1..MaxCalls, ok \in BOOLEAN :
       /\ calls[i].at = "app_load"
       /\ IF ok
          THEN /\ parsed' = Append(parsed, [by |-> i, mutatedBy |-> {}])
               /\ pdfDocument' = Len(parsed) + 1
               /\ calls' = [calls EXCEPT ![i].at = "engine_load"]
          ELSE /\ calls' = [calls EXCEPT ![i].at = "done"]
               /\ UNCHANGED <<parsed, pdfDocument>>
  /\ UNCHANGED <<pc, earlierVars, queueVars, uiVars>>

\* an engine that took the graph the app holds instead of parsing the file
EngineLoadMut ==
  /\ pc = "app_ready"
  /\ \E i \in 1..MaxCalls, removeImages \in BOOLEAN :
       /\ calls[i].at = "engine_load"
       /\ pdfDocument # 0
       /\ calls' = [calls EXCEPT ![i] = [at |-> "engine", doc |-> pdfDocument,
                                         left |-> IF removeImages THEN 3 ELSE 2]]
  /\ UNCHANGED <<pc, parsed, pdfDocument, earlierVars, queueVars, uiVars>>

\* engine.process up to the end of its loadPDF: the file is parsed into the
\* local pdfDoc.  With removeImages three passes will mutate it (the two
\* removal passes and optimizePDF), otherwise two (compression, optimizePDF)
EngineLoad ==
  /\ pc = "app_ready"
  /\ \E i \in 1..MaxCalls, removeImages \in BOOLEAN :
       /\ calls[i].at = "engine_load"
       /\ parsed' = Append(parsed, [by |-> i, mutatedBy |-> {}])
       /\ calls' = [calls EXCEPT ![i] = [at |-> "engine", doc |-> Len(parsed) + 1,
                                         left |-> IF removeImages THEN 3 ELSE 2]]
  /\ UNCHANGED <<pc, pdfDocument, earlierVars, queueVars, uiVars>>

\* one pass of the engine runs on processedDoc up to its last await; after
\* the last pass the call saves the document and ends
MutatingPass ==
  /\ pc = "app_ready"
  /\ \E i \in 1..MaxCalls :
       /\ calls[i].at = "engine"
       /\ parsed' = [parsed EXCEPT ![calls[i].doc].mutatedBy = @ \cup {i}]
       /\ calls' = [calls EXCEPT ![i].left = @ - 1,
                                 ![i].at = IF calls[i].left = 1 THEN "done" ELSE "engine"]
  /\ UNCHANGED <<pc, pdfDocument, earlierVars, queueVars, uiVars>>

NextRace == StartCall \/ AppLoad \/ EngineLoad \/ MutatingPass

SpecRace == InitRace /\ [][NextRace]_vars

\* C22: whatever the interleaving of the invocations, a Document Graph is
\* mutated by at most one invocation, and that invocation is the one that
\* parsed it from the file bytes.
C22_OwnGraphOnly ==
  \A g \in 1..Len(parsed) : parsed[g].mutatedBy \subseteq {parsed[g].by}

\* two invocations are in the engine at once, each having mutated its graph
C22_Witness ==
  /\ Len(calls) = 2
  /\ \A i \in 1..2 : /\ calls[i].at = "engine"
                      /\ i \in parsed[calls[i].doc].mutatedBy

----------------------------------------------------------------------------
(* The processing options under tab activations and clicks on the          *)
(* remove-images option.  updateProcessingOptions merges the given fields   *)
(* into state.processingOptions.                                           *)
MaxClicks == 5

InitUi ==
  /\ pc = "page_ready"
  /\ lastPct = -1
  /\ processingOptions = [imageCompression |-> TRUE, removeImages |-> FALSE,
                          splitPDF |-> FALSE, splitMethod |-> "pages"]
  /\ clicks = <<>>
  /\ isProcessing = FALSE /\ currentTaskId = 0 /\ taskQueue = <<>>
  /\ running = {} /\ timers = 0 /\ started = <<>> /\ terminals = <<>>
  /\ cancelled = {} /\ accepted = 0
  /\ calls = <<>> /\ parsed = <<>> /\ pdfDocument = 0
  /\ pageSizes = <<>>
  /\ IdleSplit /\ IdleFixed /\ IdleCompress /\ IdleRemove
  /\ IdleTarget /\ IdleFlow /\ IdleWorker /\ IdleWalk

\* applyActiveTabOptions(tabId); on the split tab the method follows the
\* radio button that is checked
ApplyActiveTabOptions ==
  /\ pc = "page_ready"
  /\ Len(clicks) < MaxClicks
  /\ \E tabId \in {"compression", "removal", "split"}, sizeChecked \in BOOLEAN :
       /\ processingOptions' =
            [imageCompression |-> tabId = "compression",
             removeImages |-> tabId = "removal",
             splitPDF |-> tabId = "split",
             splitMethod |-> IF tabId # "split" THEN processingOptions.splitMethod
                             ELSE IF sizeChecked THEN "size" ELSE "pages"]
       /\ clicks' = Append(clicks, tabId)
  /\ UNCHANGED <<pc, earlierVars, queueVars, raceVars>>

\* a click handler that turns removeImages on and leaves imageCompression
RemoveOptionClickMut ==
  /\ pc = "page_ready"
  /\ Len(clicks) < MaxClicks
  /\ processingOptions' =
       [processingOptions EXCEPT !.removeImages = ~processingOptions.removeImages]
  /\ clicks' = Append(clicks, "toggle")
  /\ UNCHANGED <<pc, earlierVars, queueVars, raceVars>>

\* the click listener of removeOption
RemoveOptionClick ==
  /\ pc = "page_ready"
  /\ Len(clicks) < MaxClicks
  /\ LET next == ~processingOptions.removeImages
     IN  processingOptions' =
           [processingOptions EXCEPT
              !.removeImages = next,
              !.imageCompression = IF next THEN FALSE
                                   ELSE processingOptions.imageCompression]
  /\ clicks' = Append(clicks, "toggle")
  /\ UNCHANGED <<pc, earlierVars, queueVars, raceVars>>

NextUi == ApplyActiveTabOptions \/ RemoveOptionClick

SpecUi == InitUi /\ [][NextUi]_vars

\* C30: after any sequence of tab activations and clicks on the
\* remove-images option, removeImages and imageCompression are not both
\* true; and when the last event was a tab activation, exactly one of
\* imageCompression, removeImages and splitPDF is true.
C30_OptionsExclusive ==
  pc = "page_ready" =>
    /\ ~(processingOptions.removeImages /\ processingOptions.imageCompression)
    /\ (clicks # <<>> /\ clicks[Len(clicks)] # "toggle") =>
         Cardinality({k \in {"imageCompression", "removeImages", "splitPDF"} :
                        processingOptions[k]}) = 1

\* on the compression tab the option was clicked, which turned compression
\* off, and the split tab was activated after that
C30_Witness ==
  /\ clicks = <<"compression", "toggle", "split">>
  /\ processingOptions.splitPDF /\ ~processingOptions.removeImages

====
